---- MODULE Spec2Model ----
(***************************************************************************)
(* Verification model of the graph-render worker:                          *)
(*   - the WorkerPromise request/response layer (worker-promise module),   *)
(*   - the orthogonal edge router mxEdgeStyle.OrthConnector and its        *)
(*     fallback mxEdgeStyle.SegmentConnector,                              *)
(*   - mxSelectionCellsHandler.refresh and the listeners of                *)
(*     mxConstraintHandler.                                                *)
(* Coordinates of the router are fixed-point integers, see Unit below.     *)
(***************************************************************************)
EXTENDS Integers, Sequences, FiniteSets, TLC

(***************************************************************************)
(* Part 1: WorkerPromise                                                   *)
(***************************************************************************)

\* Bounds of the request/response model.
MaxSends == 2
MaxDeliveries == 2

\* Two WorkerPromise objects constructed on the same worker (both listen to
\* every "message" event of that worker).
Instances == {"A", "B"}

\* Ids a message can carry: every id the counter can hand out within the
\* bound, and MaxSends, an id no request of this module ever gets.
MessageIdDomain == 0 .. MaxSends

\* JavaScript values that travel in the error and result slots.
Null == [t |-> "null", message |-> ""]
Undefined == [t |-> "undefined", message |-> ""]
EmptyString == [t |-> "string", message |-> ""]
ErrorPayload == [t |-> "object", message |-> "boom"]
ResultA == [t |-> "result", message |-> "a"]
ResultB == [t |-> "result", message |-> "b"]
DataCloneError == [t |-> "exception", message |-> "DataCloneError"]

\* JavaScript truthiness of the values above: `if (error)`.
Truthy(v) == v.t \in {"object", "result", "exception", "error"}

\* new Error(error.message)
NewError(error) == [t |-> "error", message |-> error.message]

\* What the worker channel can deliver in e.data.
NotAnArray == [isArray |-> FALSE, length |-> 0, id |-> 0, error |-> Undefined, result |-> Undefined]
ShortArray == [isArray |-> TRUE, length |-> 1, id |-> 0, error |-> Undefined, result |-> Undefined]
NoMessage == [isArray |-> FALSE, length |-> 0, id |-> MaxSends, error |-> Null, result |-> Null]

Messages ==
    {NotAnArray, ShortArray}
    \cup {[isArray |-> TRUE, length |-> 2, id |-> i, error |-> ErrorPayload, result |-> Undefined] :
            i \in MessageIdDomain}
    \cup {[isArray |-> TRUE, length |-> 3, id |-> i, error |-> Null, result |-> r] :
            i \in MessageIdDomain, r \in {ResultA, ResultB}}
    \cup {[isArray |-> TRUE, length |-> 3, id |-> i, error |-> e, result |-> ResultA] :
            i \in MessageIdDomain, e \in {EmptyString, ErrorPayload}}

VARIABLES
    messageIds,     \* the module-level counter `let messageIds = 0`
    callbacks,      \* self._callbacks of each WorkerPromise: id -> request, 0 when absent
    requests,       \* one record per postMessage call: the returned promise and its callback
    lastMessage,    \* e.data of the last "message" event dispatched
    deliveries      \* number of "message" events dispatched so far

rpcVars == <<messageIds, callbacks, requests, lastMessage, deliveries>>

\* The edge router (Part 2) is a separate module of the program with its own state.
VARIABLES
    build,              \* how the bundle was built: `let` kept, or turned into `var`
    wayPoints1,         \* mxEdgeStyle.wayPoints1, the 12-entry scratch buffer
    limits,             \* mxEdgeStyle.limits
    vertexSeperations,  \* mxEdgeStyle.vertexSeperations
    calls,              \* number of router calls made so far
    call,               \* the last router call: its arguments, result and trace
    run                 \* the call of OrthConnector under way, loop by loop

routerVars == <<build, wayPoints1, limits, vertexSeperations, calls, call, run>>

\* The interaction handlers (Part 4) and the graph they are attached to.
VARIABLES
    graph,                   \* the mxGraph: selection, view states, container, listeners
    selectionCellsHandler,   \* the mxSelectionCellsHandler and the handlers it created
    constraintHandler        \* the mxConstraintHandler

handlerVars == <<graph, selectionCellsHandler, constraintHandler>>

\* `messageIds++` leaves this value in the counter.
NextMessageIdStuck(m) == m
NextMessageId(m) == m + 1

\* resolve(value) / reject(value) of a promise: only a pending promise settles.
Settle(req, status, value, now) ==
    IF req.status = "pending"
    THEN [req EXCEPT !.status = status, !.value = value, !.settledAt = now]
    ELSE req

\* The callback postMessage stores: function (error, result) { ... }
CallbackResolvesAlways(req, error, result, now) ==
    Settle([req EXCEPT !.calls = @ + 1], "resolved", result, now)
Callback(req, error, result, now) ==
    IF Truthy(error)
    THEN Settle([req EXCEPT !.calls = @ + 1], "rejected", NewError(error), now)
    ELSE Settle([req EXCEPT !.calls = @ + 1], "resolved", result, now)

\* var callback = self._callbacks[messageId]
LookupOldest(cb, messageId) ==
    IF \E i \in MessageIdDomain : cb[i] # 0
    THEN LET i == CHOOSE i \in MessageIdDomain :
                    cb[i] # 0 /\ \A j \in MessageIdDomain : cb[j] # 0 => i <= j
         IN [key |-> i, request |-> cb[i]]
    ELSE [key |-> messageId, request |-> 0]
Lookup(cb, messageId) == [key |-> messageId, request |-> cb[messageId]]

\* onMessage without `delete self._callbacks[messageId]`.
onMessageKeepsCallback(cb, reqs, message, now) ==
    IF ~message.isArray \/ message.length < 2
    THEN [callbacks |-> cb, requests |-> reqs]
    ELSE LET found == Lookup(cb, message.id)
         IN IF found.request = 0
            THEN [callbacks |-> cb, requests |-> reqs]
            ELSE [callbacks |-> cb,
                  requests |-> [reqs EXCEPT ![found.request] =
                                   Callback(@, message.error, message.result, now)]]

\* onMessage without the Array.isArray / length test.
onMessageNoShapeCheck(cb, reqs, message, now) ==
    LET found == Lookup(cb, message.id)
    IN IF found.request = 0
       THEN [callbacks |-> cb, requests |-> reqs]
       ELSE [callbacks |-> [cb EXCEPT ![found.key] = 0],
             requests |-> [reqs EXCEPT ![found.request] =
                              Callback(@, message.error, message.result, now)]]

\* onMessage(self, e) for one WorkerPromise: its table and the requests after it.
onMessage(cb, reqs, message, now) ==
    IF ~message.isArray \/ message.length < 2
    THEN [callbacks |-> cb, requests |-> reqs]
    ELSE LET found == Lookup(cb, message.id)
         IN IF found.request = 0
            THEN [callbacks |-> cb, requests |-> reqs]
            ELSE [callbacks |-> [cb EXCEPT ![found.key] = 0],
                  requests |-> [reqs EXCEPT ![found.request] =
                                   Callback(@, message.error, message.result, now)]]

\* The worker's "message" event runs the listener of every WorkerPromise, in the
\* order they were constructed.
DispatchA(message, now) == onMessage(callbacks["A"], requests, message, now)
DispatchB(message, now) ==
    onMessage(callbacks["B"], DispatchA(message, now).requests, message, now)

InitRpc ==
    /\ messageIds = 0
    /\ callbacks = [w \in Instances |-> [i \in MessageIdDomain |-> 0]]
    /\ requests = <<>>
    /\ lastMessage = NoMessage
    /\ deliveries = 0

\* WorkerPromise.prototype.postMessage on instance w; `throws` is whether
\* self._worker.postMessage raises (the executor's exception rejects the promise).
postMessage(w, throws) ==
    /\ Len(requests) < MaxSends
    /\ messageIds < MaxSends
    /\ LET messageId == messageIds
           fresh == [inst |-> w, id |-> messageId, status |-> "pending", value |-> Undefined,
                     calls |-> 0, handed |-> IF throws THEN 0 ELSE 1,
                     settledAt |-> 0]
           index == Len(requests) + 1
       IN /\ messageIds' = NextMessageId(messageIds)
          /\ callbacks' = [callbacks EXCEPT ![w][messageId] = index]
          /\ requests' = Append(requests,
                                IF throws
                                THEN Settle(fresh, "rejected", DataCloneError, deliveries)
                                ELSE fresh)
    /\ UNCHANGED <<lastMessage, deliveries>>
    /\ UNCHANGED <<routerVars, handlerVars>>

\* One "message" event of the worker with e.data = message.
Deliver(message) ==
    /\ deliveries < MaxDeliveries
    /\ deliveries' = deliveries + 1
    /\ lastMessage' = message
    /\ callbacks' = [callbacks EXCEPT !["A"] = DispatchA(message, deliveries + 1).callbacks,
                                      !["B"] = DispatchB(message, deliveries + 1).callbacks]
    /\ requests' = DispatchB(message, deliveries + 1).requests
    /\ UNCHANGED messageIds
    /\ UNCHANGED <<routerVars, handlerVars>>

NextRpc ==
    \/ \E w \in Instances, throws \in BOOLEAN : postMessage(w, throws)
    \/ \E message \in Messages : Deliver(message)

vars == <<rpcVars, routerVars, handlerVars>>

(***************************************************************************)
(* Properties of WorkerPromise                                             *)
(***************************************************************************)

\* The step is a "message" event whose data passes onMessage's shape test and
\* carries the id of request i.
ReplyArrivesFor(i) ==
    /\ deliveries' = deliveries + 1
    /\ lastMessage'.isArray
    /\ lastMessage'.length >= 2
    /\ lastMessage'.id = requests[i].id

\* C1: with several requests pending on one WorkerPromise, whatever the order of
\* the replies, a promise is settled only by the reply that carries its own id,
\* and with that reply's result (or its error), never with another request's.
C1_SettledByOwnReply ==
    [][\A i \in 1 .. Len(requests) :
          (requests[i].status = "pending" /\ requests'[i].status # "pending")
              => /\ ReplyArrivesFor(i)
                 /\ requests'[i].status = "resolved" => requests'[i].value = lastMessage'.result
                 /\ requests'[i].status = "rejected"
                        => requests'[i].value = NewError(lastMessage'.error)]_vars

\* Two requests of one WorkerPromise were pending together, the younger one was
\* answered first, and both are resolved, with different results.
C1_Witness ==
    \E i, j \in 1 .. Len(requests) :
        /\ i < j
        /\ requests[i].inst = requests[j].inst
        /\ requests[i].status = "resolved" /\ requests[j].status = "resolved"
        /\ requests[j].settledAt < requests[i].settledAt
        /\ requests[i].value # requests[j].value

\* C2: the callback of a request runs at most once, it runs exactly in the step
\* in which the first reply with the request's id arrives, a later reply with the
\* same id runs nothing, and a pending promise leaves the pending state only in
\* such a step (no timeout, no cancellation).
C2_CallbackOnceOnReply ==
    /\ [](\A i \in 1 .. Len(requests) : requests[i].calls <= 1)
    /\ [][\A i \in 1 .. Len(requests) :
            /\ requests'[i].calls # requests[i].calls
                  => ReplyArrivesFor(i) /\ requests[i].calls = 0
            /\ (ReplyArrivesFor(i) /\ requests[i].calls = 0) => requests'[i].calls = 1
            /\ (requests[i].status = "pending" /\ requests'[i].status # "pending")
                  => requests'[i].calls = requests[i].calls + 1]_vars

\* A request whose callback has run once has just received a second reply with
\* its id.
C2_Witness ==
    \E i \in 1 .. Len(requests) :
        /\ requests[i].calls = 1
        /\ requests[i].handed = 1
        /\ requests[i].settledAt < deliveries
        /\ lastMessage.isArray /\ lastMessage.length >= 2
        /\ lastMessage.id = requests[i].id

\* C3: a "message" event whose data is not an array of at least two entries, or
\* whose id has no callback in a WorkerPromise, leaves that WorkerPromise's
\* callback table and all of its promises unchanged.
C3_ForeignMessageIgnored ==
    [][deliveries' = deliveries + 1 =>
          \A w \in Instances :
              (~lastMessage'.isArray \/ lastMessage'.length < 2
                  \/ callbacks[w][lastMessage'.id] = 0)
                 => /\ callbacks'[w] = callbacks[w]
                    /\ \A i \in 1 .. Len(requests) :
                          requests[i].inst = w => requests'[i] = requests[i]]_vars

\* The last message answered a request of one WorkerPromise while the other
\* WorkerPromise on the same worker had a request pending, which still is.
C3_Witness ==
    \E i, j \in 1 .. Len(requests) :
        /\ requests[i].inst # requests[j].inst
        /\ requests[i].status = "resolved" /\ requests[i].settledAt = deliveries
        /\ lastMessage.id = requests[i].id
        /\ requests[j].status = "pending"
        /\ callbacks[requests[j].inst][requests[j].id] = j

\* C4: a reply carrying an error object for a pending request rejects its promise
\* with new Error(error.message); a rejected promise stays rejected with the same
\* error, and the request is handed to the worker at most the one time of its send.
C4_ErrorReplyRejects ==
    [][\A i \in 1 .. Len(requests) :
          /\ (ReplyArrivesFor(i) /\ requests[i].status = "pending"
                 /\ lastMessage'.error.t = "object")
                => /\ requests'[i].status = "rejected"
                   /\ requests'[i].value = NewError(lastMessage'.error)
          /\ requests[i].status = "rejected"
                => /\ requests'[i].status = "rejected"
                   /\ requests'[i].value = requests[i].value
          /\ requests'[i].handed = requests[i].handed]_vars

\* A request was rejected by an error reply, and afterwards a reply without error
\* arrived for the same id: the promise is still rejected.
C4_Witness ==
    \E i \in 1 .. Len(requests) :
        /\ requests[i].status = "rejected"
        /\ requests[i].value = NewError(ErrorPayload)
        /\ requests[i].settledAt < deliveries
        /\ lastMessage.isArray /\ lastMessage.length = 3
        /\ lastMessage.id = requests[i].id
        /\ lastMessage.error = Null

\* C5: the ids of the requests strictly increase in the order of the postMessage
\* calls, across all WorkerPromise objects of the module, so no two requests share
\* an id; the counter is above every id handed out.
C5_IdsStrictlyIncrease ==
    /\ \A i, j \in 1 .. Len(requests) : i < j => requests[i].id < requests[j].id
    /\ \A i \in 1 .. Len(requests) : requests[i].id < messageIds

\* Two requests were sent through different WorkerPromise objects.
C5_Witness ==
    \E i, j \in 1 .. Len(requests) :
        /\ requests[i].inst # requests[j].inst
        /\ requests[i].id # requests[j].id

(***************************************************************************)
(* Part 2: mxEdgeStyle, geometry helpers                                   *)
(*                                                                         *)
(* A coordinate c of the program is the integer c * Unit here.  Every      *)
(* value the router computes from inputs that are multiples of 0.5 is a    *)
(* multiple of 1/40: one-decimal rounding gives tenths, the centre of a    *)
(* rectangle and half a vertex separation halve and quarter a half.        *)
(***************************************************************************)

Unit == 10 * 2 * 2

\* 0.1, the grain of Math.round(c * 10) / 10
Tenth == Unit \div 10

Abs(a) == IF a < 0 THEN -a ELSE a
Max(a, b) == IF a >= b THEN a ELSE b

\* Math.round(n / d) for d > 0: the nearest integer, a tie going up.
MathRound(n, d) == (2 * n + d) \div (2 * d)

\* new mxPoint(x, y), and the null / undefined reference.
Point(x, y) == [nil |-> FALSE, x |-> x, y |-> y]
NullPoint == [nil |-> TRUE, x |-> 0, y |-> 0]

\* A cell state: rectangle, style rotation, cell kind, object identity.
NullState == [nil |-> TRUE, x |-> 0, y |-> 0, width |-> 0, height |-> 0,
              isEdge |-> FALSE, rotation |-> 0, ref |-> 0]

\* Math.round(c * scale * 10) / 10 of a coordinate, scale = n / d.
ToScreen(c, scale) == Tenth * MathRound(c * scale.n, Tenth * scale.d)

\* Math.round((c / scale) * 10) / 10
ToModelFloor(c, scale) == Tenth * ((c * scale.d) \div (Tenth * scale.n))
ToModel(c, scale) == Tenth * MathRound(c * scale.d, Tenth * scale.n)

scalePoint(p, scale) ==
    IF p.nil THEN NullPoint ELSE Point(ToModel(p.x, scale), ToModel(p.y, scale))

scalePointArray(points, scale) ==
    [i \in 1 .. Len(points) |-> scalePoint(points[i], scale)]

\* state.clone() gives a new object: `ref` is the identity of the clone.
scaleCellState(state, scale, ref) ==
    IF state.nil THEN NullState
    ELSE [state EXCEPT !.x = ToModel(state.x, scale), !.y = ToModel(state.y, scale),
                       !.width = ToModel(state.width, scale),
                       !.height = ToModel(state.height, scale),
                       !.ref = ref]

\* mxUtils.contains(bounds, x, y): the point lies strictly inside the rectangle
contains(bounds, x, y) ==
    /\ bounds.x < x /\ bounds.x + bounds.width > x
    /\ bounds.y < y /\ bounds.y + bounds.height > y

\* state.view.getRoutingCenterX / getRoutingCenterY without a routing-centre style
getRoutingCenter(state) == Point(state.x + state.width \div 2, state.y + state.height \div 2)

\* `tol = 1` of SegmentConnector
tol == Unit

\* a sequence without its entry at index i: result.splice(i, 1)
Splice(seq, i) == [k \in 1 .. Len(seq) - 1 |-> IF k < i THEN seq[k] ELSE seq[k + 1]]

(***************************************************************************)
(* mxEdgeStyle.SegmentConnector                                            *)
(***************************************************************************)

\* pushPoint(pt): acc is [result, lastPushed].
pushPoint(acc, pt, scale) ==
    LET p == Point(ToScreen(pt.x, scale), ToScreen(pt.y, scale))
        lp == acc.lastPushed
    IN IF \/ lp.nil
          \/ Abs(lp.x - p.x) >= tol
          \/ Abs(lp.y - p.y) * scale.d >= Unit * Max(scale.d, scale.n)
       THEN [result |-> Append(acc.result, p), lastPushed |-> p]
       ELSE acc

\* "Aligns source and target hint to fixed points"
alignHint(h, p) ==
    IF p.nil THEN h
    ELSE [h EXCEPT !.x = IF Abs(h.x - p.x) < tol THEN p.x ELSE @,
                   !.y = IF Abs(h.y - p.y) < tol THEN p.y ELSE @]

\* One iteration of "for (let i = 0; i < 2; i++)": st holds horizontal, hints,
\* currentTerm, currentPt, currentHint and whether the loop was left by break.
orientationStep(i, st, pe, target) ==
    IF st.done THEN st
    ELSE
    LET currentPt == st.currentPt
        currentHint == st.currentHint
        currentTerm == st.currentTerm
        fixedVertAlign == ~currentPt.nil /\ currentPt.x = currentHint.x
        fixedHozAlign == ~currentPt.nil /\ currentPt.y = currentHint.y
        inHozChan == /\ ~currentTerm.nil
                     /\ currentHint.y >= currentTerm.y
                     /\ currentHint.y <= currentTerm.y + currentTerm.height
        inVertChan == /\ ~currentTerm.nil
                      /\ currentHint.x >= currentTerm.x
                      /\ currentHint.x <= currentTerm.x + currentTerm.width
        hozChan == fixedHozAlign \/ (currentPt.nil /\ inHozChan)
        vertChan == fixedVertAlign \/ (currentPt.nil /\ inVertChan)
        skip == i = 0 /\ ((hozChan /\ vertChan) \/ (fixedVertAlign /\ fixedHozAlign))
        break1 == /\ ~skip
                  /\ ~currentPt.nil /\ ~fixedHozAlign /\ ~fixedVertAlign
                  /\ (inHozChan \/ inVertChan)
        break2 == ~skip /\ ~break1 /\ (vertChan \/ hozChan)
    IN IF break1
       THEN [st EXCEPT !.horizontal = ~inHozChan, !.done = TRUE]
       ELSE IF break2
       THEN [st EXCEPT !.horizontal =
                          IF i = 1
                          THEN (IF Len(st.hints) % 2 = 0 THEN hozChan ELSE vertChan)
                          ELSE hozChan,
                       !.done = TRUE]
       ELSE [st EXCEPT !.currentTerm = IF pe.nil THEN target ELSE NullState,
                       !.currentPt = pe,
                       !.currentHint = IF Len(st.hints) > 0
                                       THEN st.hints[Len(st.hints)] ELSE NullPoint,
                       !.hints = IF fixedVertAlign /\ fixedHozAlign /\ Len(st.hints) > 0
                                 THEN Tail(st.hints) ELSE st.hints]

\* "for (let i = 0; i < hints.length; i++)": w holds horizontal, pt, hint, acc.
RECURSIVE hintLoop(_, _, _, _)
hintLoop(hints, i, w, scale) ==
    IF i > Len(hints) THEN w
    ELSE LET horizontal == ~w.horizontal
             hint == hints[i]
             pt == IF horizontal THEN [w.pt EXCEPT !.y = hint.y]
                   ELSE [w.pt EXCEPT !.x = hint.x]
         IN hintLoop(hints, i + 1,
                     [horizontal |-> horizontal, pt |-> pt, hint |-> hint,
                      acc |-> pushPoint(w.acc, pt, scale)],
                     scale)

\* "Removes bends inside the source terminal for floating ports"
RECURSIVE trimSource(_, _)
trimSource(result, source) ==
    IF Len(result) > 1 /\ ~result[2].nil /\ contains(source, result[2].x, result[2].y)
    THEN trimSource(Splice(result, 2), source)
    ELSE result

\* "Removes bends inside the target terminal"
RECURSIVE trimTarget(_, _)
trimTargetKeepsAll(result, target) == result
trimTarget(result, target) ==
    IF /\ Len(result) > 1
       /\ ~result[Len(result)].nil
       /\ contains(target, result[Len(result)].x, result[Len(result)].y)
    THEN trimTarget(Splice(result, Len(result)), target)
    ELSE result

\* "Removes last point if inside tolerance with end point" and lines up the
\* point before it.
removeLast(result, pe) ==
    IF /\ ~pe.nil
       /\ Len(result) > 0
       /\ ~result[Len(result)].nil
       /\ Abs(pe.x - result[Len(result)].x) <= tol
       /\ Abs(pe.y - result[Len(result)].y) <= tol
    THEN LET r == Splice(result, Len(result))
         IN IF Len(r) > 0 /\ ~r[Len(r)].nil
            THEN [r EXCEPT ![Len(r)] = alignHint(@, pe)]
            ELSE r
    ELSE result

\* The body of SegmentConnector once pt and the hints exist: everything from
\* "Aligns source and target hint to fixed points" to the end of the hints loop.
\* Gives [horizontal, hint, acc].
segmentHints(hints0, pt0, p0, pe, source, target, acc0, scale) ==
    LET hintsA == [hints0 EXCEPT ![1] = alignHint(@, pt0)]
        hintsB == [hintsA EXCEPT ![Len(hintsA)] = alignHint(@, pe)]
        hint == hintsB[1]
        st0 == [horizontal |-> TRUE, hints |-> hintsB,
                currentTerm |-> IF p0.nil THEN source ELSE NullState,
                currentPt |-> p0, currentHint |-> hint, done |-> FALSE]
        st2 == orientationStep(1, orientationStep(0, st0, pe, target), pe, target)
        horizontal == st2.horizontal
        acc1 == IF /\ horizontal
                   /\ \/ (~p0.nil /\ p0.y # hint.y)
                      \/ /\ p0.nil /\ ~source.nil
                         /\ (hint.y < source.y \/ hint.y > source.y + source.height)
                THEN pushPoint(acc0, Point(pt0.x, hint.y), scale)
                ELSE IF /\ ~horizontal
                        /\ \/ (~p0.nil /\ p0.x # hint.x)
                           \/ /\ p0.nil /\ ~source.nil
                              /\ (hint.x < source.x \/ hint.x > source.x + source.width)
                THEN pushPoint(acc0, Point(hint.x, pt0.y), scale)
                ELSE acc0
        pt1 == IF horizontal THEN [pt0 EXCEPT !.y = hint.y] ELSE [pt0 EXCEPT !.x = hint.x]
        w == hintLoop(st2.hints, 1,
                      [horizontal |-> horizontal, pt |-> pt1, hint |-> hint, acc |-> acc1],
                      scale)
    IN [horizontal |-> w.horizontal, hint |-> w.hint, acc |-> w.acc]

\* "Adds the last point" and the three clean-up passes. Gives the final result
\* and the number of entries the two trimming loops removed.
segmentFinish(h, p0, pe, source, target, scale) ==
    LET horizontal == h.horizontal
        hint == h.hint
        pt == IF pe.nil /\ ~target.nil THEN getRoutingCenter(target) ELSE pe
        acc == IF pt.nil \/ hint.nil THEN h.acc
               ELSE IF /\ horizontal
                       /\ \/ (~pe.nil /\ pe.y # hint.y)
                          \/ /\ pe.nil /\ ~target.nil
                             /\ (hint.y < target.y \/ hint.y > target.y + target.height)
               THEN pushPoint(h.acc, Point(pt.x, hint.y), scale)
               ELSE IF /\ ~horizontal
                       /\ \/ (~pe.nil /\ pe.x # hint.x)
                          \/ /\ pe.nil /\ ~target.nil
                             /\ (hint.x < target.x \/ hint.x > target.x + target.width)
               THEN pushPoint(h.acc, Point(hint.x, pt.y), scale)
               ELSE h.acc
        r1 == acc.result
        r2 == IF p0.nil /\ ~source.nil THEN trimSource(r1, source) ELSE r1
        r3 == IF pe.nil /\ ~target.nil THEN trimTarget(r2, target) ELSE r2
    IN [result |-> removeLast(r3, pe), trimmed |-> Len(r1) - Len(r3)]

\* The normal return of SegmentConnector.
segmentDone(finished) ==
    [result |-> finished.result, error |-> "none", trimmed |-> finished.trimmed]

\* mxEdgeStyle.SegmentConnector(state, sourceScaled, targetScaled, controlHints,
\* result): gives the result array after the call, the error it raised, if any,
\* and the number of entries trimmed.
\* state.view.transformControlPoint with no translation gives a copy of each
\* non-null hint.
SegmentConnector(state, sourceScaled, targetScaled, controlHints, result) ==
    LET scale == state.scale
        pts == scalePointArray(state.absolutePoints, scale)
        source == scaleCellState(sourceScaled, scale, 3)
        target == scaleCellState(targetScaled, scale, 4)
        p0 == pts[1]
        pe == pts[Len(pts)]
        acc0 == [result |-> result,
                 lastPushed |-> IF Len(result) > 0 THEN result[1] ELSE NullPoint]
        pt0 == IF p0.nil /\ ~source.nil THEN getRoutingCenter(source) ELSE p0
        hints0 == SelectSeq(controlHints, LAMBDA q : ~q.nil)
    IN IF Len(controlHints) > 0
       THEN IF Len(hints0) = 0
            THEN [result |-> result, error |-> "none", trimmed |-> 0]
            ELSE IF pt0.nil
            THEN [result |-> result, error |-> "TypeError", trimmed |-> 0]
            ELSE segmentDone(segmentFinish(
                                 segmentHints(hints0, pt0, p0, pe, source, target, acc0, scale),
                                 p0, pe, source, target, scale))
       ELSE segmentDone(segmentFinish([horizontal |-> TRUE, hint |-> pt0, acc |-> acc0],
                                      p0, pe, source, target, scale))

(***************************************************************************)
(* mxEdgeStyle constants and tables                                        *)
(***************************************************************************)

\* mxConstants.DIRECTION_MASK_*
DIRECTION_MASK_NONE == 0
DIRECTION_MASK_WEST == 1
DIRECTION_MASK_NORTH == 2
DIRECTION_MASK_SOUTH == 4
DIRECTION_MASK_EAST == 8
DIRECTION_MASK_ALL == 15

orthBuffer == 10
SIDE_MASK == 480
CENTER_MASK == 512
SOURCE_MASK == 1024
TARGET_MASK == 2048

\* mxConstants.DEFAULT_MARKERSIZE
DEFAULT_MARKERSIZE == 6

dirVectors == << <<-1, 0>>, <<0, -1>>, <<1, 0>>, <<0, 1>>, <<-1, 0>>, <<0, -1>>, <<1, 0>> >>

\* The table with the pattern for source index 3, target index 2 left out.
routePatternsWithGap ==
    << << <<513, 2308, 2081, 2562>>,
          <<513, 1090, 514, 2184, 2114, 2561>>,
          <<513, 1090, 514, 2564, 2184, 2562>>,
          <<513, 2308, 2561, 1090, 514, 2568, 2308>> >>,
       << <<514, 1057, 513, 2308, 2081, 2562>>,
          <<514, 2184, 2114, 2561>>,
          <<514, 2184, 2562, 1057, 513, 2564, 2184>>,
          <<514, 1057, 513, 2568, 2308, 2561>> >>,
       << <<1090, 514, 1057, 513, 2308, 2081, 2562>>,
          <<>>,
          <<1090, 2562, 1057, 513, 2564, 2184>>,
          <<1090, 514, 1057, 513, 2308, 2561, 2568>> >>,
       << <<2081, 2562>>,
          <<1057, 513, 1090, 514, 2184, 2114, 2561>>,
          <<1057, 513, 1090, 514, 2184, 2562, 2564>>,
          <<1057, 2561, 1090, 514, 2568, 2308>> >> >>
routePatterns ==
    << << <<513, 2308, 2081, 2562>>,
          <<513, 1090, 514, 2184, 2114, 2561>>,
          <<513, 1090, 514, 2564, 2184, 2562>>,
          <<513, 2308, 2561, 1090, 514, 2568, 2308>> >>,
       << <<514, 1057, 513, 2308, 2081, 2562>>,
          <<514, 2184, 2114, 2561>>,
          <<514, 2184, 2562, 1057, 513, 2564, 2184>>,
          <<514, 1057, 513, 2568, 2308, 2561>> >>,
       << <<1090, 514, 1057, 513, 2308, 2081, 2562>>,
          <<2114, 2561>>,
          <<1090, 2562, 1057, 513, 2564, 2184>>,
          <<1090, 514, 1057, 513, 2308, 2561, 2568>> >>,
       << <<2081, 2562>>,
          <<1057, 513, 1090, 514, 2184, 2114, 2561>>,
          <<1057, 513, 1090, 514, 2184, 2562, 2564>>,
          <<1057, 2561, 1090, 514, 2568, 2308>> >> >>

\* a & b, a << k, a >> k on the non-negative 32-bit values the router uses
RECURSIVE BitAnd(_, _)
BitAnd(a, b) ==
    IF a = 0 \/ b = 0 THEN 0
    ELSE (a % 2) * (b % 2) + 2 * BitAnd(a \div 2, b \div 2)

RECURSIVE Pow2(_)
Pow2(k) == IF k = 0 THEN 1 ELSE 2 * Pow2(k - 1)

\* a << k keeps the low 32 bits; bit 31 of the result is the sign
ShiftLeft(a, k) ==
    IF k = 0 THEN a
    ELSE LET low == a % Pow2(31 - k)
             sign == (a \div Pow2(31 - k)) % 2
         IN low * Pow2(k) - sign * Pow2(30) - sign * Pow2(30)
ShiftRight(a, k) == a \div Pow2(k)

\* mxUtils.reversePortConstraints
reversePortConstraints(constraint) ==
    ShiftLeft(BitAnd(constraint, DIRECTION_MASK_WEST), 3)
    + ShiftLeft(BitAnd(constraint, DIRECTION_MASK_NORTH), 1)
    + ShiftRight(BitAnd(constraint, DIRECTION_MASK_SOUTH), 1)
    + ShiftRight(BitAnd(constraint, DIRECTION_MASK_EAST), 3)

\* A style value: unset, a number, the string "auto", or another string.
Unset == [kind |-> "unset", n |-> 0]
Number(n) == [kind |-> "number", n |-> n]
Auto == [kind |-> "auto", n |-> 0]
Text == [kind |-> "string", n |-> 0]

\* mxUtils.getValue(style, key, defaultValue)
getValue(value, defaultValue) == IF value.kind = "unset" THEN defaultValue ELSE value

\* Math.ceil(n / d) for d > 0
MathCeil(n, d) == -((-n) \div d)

\* mxEdgeStyle.getJettySize(state, isSource); none is mxConstants.NONE.
getJettySizeIgnoresShared(style, isSource) ==
    LET value == getValue(IF isSource THEN style.sourceJettySize ELSE style.targetJettySize,
                          Number(orthBuffer))
        arrow == IF isSource THEN style.startArrow ELSE style.endArrow
        size == getValue(IF isSource THEN style.startSize ELSE style.endSize,
                         Number(DEFAULT_MARKERSIZE))
    IN IF value.kind = "auto"
       THEN IF arrow # "none"
            THEN Number(Max(2, MathCeil(size.n + orthBuffer, orthBuffer)) * orthBuffer)
            ELSE Number(2 * orthBuffer)
       ELSE value
getJettySize(style, isSource) ==
    LET value == getValue(IF isSource THEN style.sourceJettySize ELSE style.targetJettySize,
                          getValue(style.jettySize, Number(orthBuffer)))
        arrow == IF isSource THEN style.startArrow ELSE style.endArrow
        size == getValue(IF isSource THEN style.startSize ELSE style.endSize,
                         Number(DEFAULT_MARKERSIZE))
    IN IF value.kind = "auto"
       THEN IF arrow # "none"
            THEN Number(Max(2, MathCeil(size.n + orthBuffer, orthBuffer)) * orthBuffer)
            ELSE Number(2 * orthBuffer)
       ELSE value

\* mxUtils.getBoundingBox(rect, rotation) for a rotation that is a multiple of
\* 90 degrees: the rectangle turned about its centre.
getBoundingBox(rect, rotation) ==
    IF rotation % 180 = 0 THEN rect
    ELSE [x |-> rect.x + rect.width \div 2 - rect.height \div 2,
          y |-> rect.y + rect.height \div 2 - rect.width \div 2,
          width |-> rect.height, height |-> rect.width]

(***************************************************************************)
(* mxEdgeStyle.OrthConnector: quadrant and directions                      *)
(***************************************************************************)

\* "Work out which quad the target is in": dx, dy are source centre minus
\* target centre.
quadrantWithoutSpecialCase(dx, dy) ==
    IF dx < 0 THEN (IF dy < 0 THEN 2 ELSE 1)
    ELSE IF dy <= 0 THEN 3
    ELSE 0
quadrant(dx, dy) ==
    IF dx < 0 THEN (IF dy < 0 THEN 2 ELSE 1)
    ELSE IF dy <= 0 THEN (IF dx = 0 THEN 2 ELSE 3)
    ELSE 0

\* "Check for connection constraints": the side a fixed connection point lies on
\* (within 1 unit), 0 when currentTerm is null or lies on no side; g is geo[i].
fixedDirection(currentTerm, g) ==
    IF currentTerm.nil THEN 0
    ELSE LET horizontal == IF Abs(currentTerm.x - g[1]) <= Unit THEN DIRECTION_MASK_WEST
                           ELSE IF Abs(currentTerm.x - g[1] - g[3]) <= Unit
                           THEN DIRECTION_MASK_EAST
                           ELSE 0
         IN IF Abs(currentTerm.y - g[2]) <= Unit THEN DIRECTION_MASK_NORTH
            ELSE IF Abs(currentTerm.y - g[2] - g[4]) <= Unit THEN DIRECTION_MASK_SOUTH
            ELSE horizontal

\* The value of an arithmetic expression that is not a number: a value outside
\* the range of the coordinates, which every sum passes on and every comparison
\* answers false for.
NaN == 0 - Unit * Unit * Unit * Unit
Plus(a, b) == IF a = NaN \/ b = NaN THEN NaN ELSE a + b
\* a != b
Differ(a, b) == a = NaN \/ b = NaN \/ a # b

\* constraint[i][0] * geo[i][2] and constraint[i][1] * geo[i][3]: the offset of
\* the connection point from the corner of geo[i], half the size when the
\* endpoint has no fixed point. With a fixed point constraint[i] is a quotient
\* by the width and by the height: by zero it is an infinity or NaN, and its
\* product with the zero is NaN.
constraintOffset(currentTerm, g) ==
    IF currentTerm.nil THEN <<g[3] \div 2, g[4] \div 2>>
    ELSE <<IF g[3] = 0 THEN NaN ELSE currentTerm.x - g[1],
           IF g[4] = 0 THEN NaN ELSE currentTerm.y - g[2]>>

\* "If the preferred port isn't available, switch it", for endpoint i
switchPref(pref, constraint, fixed) ==
    IF fixed # 0 THEN pref
    ELSE IF BitAnd(pref, constraint) = 0 THEN reversePortConstraints(pref) ELSE pref

\* "If the list contains gaps, compact it": the three tests on dirPref[i]
closeFirstGap(dirPref) ==
    IF BitAnd(dirPref, 15) = 0 THEN ShiftLeft(dirPref, 8) ELSE dirPref
closeSecondGap(dirPref) ==
    IF BitAnd(dirPref, 3840) = 0
    THEN BitAnd(dirPref, 15) + ShiftRight(dirPref, 8)
    ELSE dirPref
closeThirdGap(dirPref) ==
    IF BitAnd(dirPref, 983040) = 0
    THEN BitAnd(dirPref, 65535) + ShiftRight(BitAnd(dirPref, 251658240), 8)
    ELSE dirPref

\* dirPref[i] as the four "|=" lines build it; po is prefOrdering after
\* prefOrdering[i][0] was replaced.
packPrefs(i, po, portConstraint) ==
    BitAnd(po[i][1], portConstraint)
    + ShiftLeft(BitAnd(po[i][2], portConstraint), 8)
    + ShiftLeft(BitAnd(po[3 - i][i], portConstraint), 16)
    + ShiftLeft(BitAnd(po[3 - i][3 - i], portConstraint), 24)

\* prefOrdering after "if ((prefOrdering[i][0] & portConstraint[i]) == 0)"
firstAvailable(i, po, portConstraint) ==
    [po EXCEPT ![i][1] = IF BitAnd(po[i][1], portConstraint) = 0 THEN po[i][2] ELSE po[i][1]]

\* dir[i] at the end of the second loop's body
compact(i, po, portConstraint) ==
    IF portConstraint \in {DIRECTION_MASK_WEST, DIRECTION_MASK_NORTH,
                           DIRECTION_MASK_EAST, DIRECTION_MASK_SOUTH}
    THEN portConstraint
    ELSE BitAnd(closeThirdGap(closeSecondGap(closeFirstGap(
                    packPrefs(i, firstAvailable(i, po, portConstraint), portConstraint)))),
                15)

\* "for (let i = 0; i < 2; i++)" of the compaction, for the source and then the
\* target; an endpoint whose direction is fixed is skipped.
compactTarget(fixed, po, portConstraint, dir0) ==
    <<dir0, IF fixed[2] # 0 THEN fixed[2] ELSE compact(2, po, portConstraint[2])>>
compactBothSkipsNothing(fixed, po, portConstraint) ==
    compactTarget(fixed, firstAvailable(1, po, portConstraint[1]), portConstraint,
                  compact(1, po, portConstraint[1]))
compactBoth(fixed, po, portConstraint) ==
    IF fixed[1] # 0
    THEN compactTarget(fixed, po, portConstraint, fixed[1])
    ELSE compactTarget(fixed, firstAvailable(1, po, portConstraint[1]), portConstraint,
                       compact(1, po, portConstraint[1]))

\* prefOrdering after the two-segment, vertical and horizontal preference tests;
\* horPref and vertPref are the preferences after the switch loop.
orderPrefs(fixed, portConstraint, horPref, vertPref, preferredHorizDist, preferredVertDist) ==
    LET twoSegment == preferredVertDist > 0 /\ preferredHorizDist > 0
        horFirst == /\ twoSegment
                    /\ BitAnd(horPref[1], portConstraint[1]) > 0
                    /\ BitAnd(vertPref[2], portConstraint[2]) > 0
        vertFirst == /\ twoSegment /\ ~horFirst
                     /\ BitAnd(vertPref[1], portConstraint[1]) > 0
                     /\ BitAnd(horPref[2], portConstraint[2]) > 0
    IN IF horFirst
       THEN << <<horPref[1], vertPref[1]>>, <<vertPref[2], horPref[2]>> >>
       ELSE IF vertFirst
       THEN << <<vertPref[1], horPref[1]>>, <<horPref[2], vertPref[2]>> >>
       ELSE IF preferredVertDist > 0
       THEN << <<vertPref[1], horPref[1]>>, <<vertPref[2], horPref[2]>> >>
       ELSE IF preferredHorizDist > 0
       THEN << <<horPref[1], vertPref[1]>>, <<horPref[2], vertPref[2]>> >>
       ELSE << IF fixed[1] # 0 THEN <<0, 0>> ELSE <<vertPref[1], horPref[1]>>,
               IF fixed[2] # 0 THEN <<0, 0>> ELSE <<vertPref[2], horPref[2]>> >>

\* horPref / vertPref of both endpoints after "If the preferred port isn't
\* available, switch it"; pref is the source's preference by relative position.
switchedPrefs(pref, portConstraint, fixed) ==
    <<switchPref(pref, portConstraint[1], fixed[1]),
      switchPref(reversePortConstraints(pref), portConstraint[2], fixed[2])>>

\* "Start of source and target direction determination" .. "End of ...":
\* fixed is dir after the connection-constraint check, geo the two rectangles.
resolveDirections(fixed, geo, portConstraint) ==
    LET sourceTopDist == geo[1][2] - (geo[2][2] + geo[2][4])
        sourceLeftDist == geo[1][1] - (geo[2][1] + geo[2][3])
        sourceBottomDist == geo[2][2] - (geo[1][2] + geo[1][4])
        sourceRightDist == geo[2][1] - (geo[1][1] + geo[1][3])
        horPref0 == IF sourceLeftDist >= sourceRightDist
                    THEN DIRECTION_MASK_WEST ELSE DIRECTION_MASK_EAST
        vertPref0 == IF sourceTopDist >= sourceBottomDist
                     THEN DIRECTION_MASK_NORTH ELSE DIRECTION_MASK_SOUTH
    IN compactBoth(fixed,
                   orderPrefs(fixed, portConstraint,
                              switchedPrefs(horPref0, portConstraint, fixed),
                              switchedPrefs(vertPref0, portConstraint, fixed),
                              Max(sourceLeftDist, sourceRightDist),
                              Max(sourceTopDist, sourceBottomDist)),
                   portConstraint)

(***************************************************************************)
(* mxEdgeStyle.OrthConnector: pattern selection and execution              *)
(***************************************************************************)

\* dir == EAST ? 3 : dir
directionIndexOf(dir) == IF dir = DIRECTION_MASK_EAST THEN 3 ELSE dir

\* sourceIndex / targetIndex: the direction index turned back by the quadrant
patternIndex(dir, quad) ==
    LET index == directionIndexOf(dir) - quad
    IN IF index < 1 THEN index + 4 ELSE index

\* wayPoints1[0] after the switch on dir[0]; g is geo[0], off the source's
\* constraint offset.
firstWayPoint(dir, g, off, sourceBuffer) ==
    IF dir = DIRECTION_MASK_WEST THEN <<g[1] - sourceBuffer, Plus(g[2], off[2])>>
    ELSE IF dir = DIRECTION_MASK_SOUTH THEN <<Plus(g[1], off[1]), g[2] + g[4] + sourceBuffer>>
    ELSE IF dir = DIRECTION_MASK_EAST THEN <<g[1] + g[3] + sourceBuffer, Plus(g[2], off[2])>>
    ELSE IF dir = DIRECTION_MASK_NORTH THEN <<Plus(g[1], off[1]), g[2] - sourceBuffer>>
    ELSE <<g[1], g[2]>>

\* dir & (EAST | WEST) > 0 ? 0 : 1
orientationOf(dir) ==
    IF BitAnd(dir, DIRECTION_MASK_EAST + DIRECTION_MASK_WEST) > 0 THEN 0 ELSE 1

\* One iteration of "for (let i = 0; i < routePattern.length; i++)".
\* w is [wayPoints1, currentIndex, lastOrientation]; env holds quad, geo,
\* offsets, limits and vertexSeperations.
patternStepAlwaysRewinds(step, w, env) ==
    LET currentOrientation ==
            IF (IF directionIndexOf(BitAnd(step, 15)) + env.quad > 4
                THEN directionIndexOf(BitAnd(step, 15)) + env.quad - 4
                ELSE directionIndexOf(BitAnd(step, 15)) + env.quad) % 2 > 0 THEN 0 ELSE 1
        currentIndex == IF currentOrientation # w.lastOrientation
                        THEN w.currentIndex + 1 ELSE w.currentIndex
    IN [wayPoints1 |-> w.wayPoints1,
        currentIndex |-> currentIndex - 1,
        lastOrientation |-> w.lastOrientation,
        maxIndex |-> Max(w.maxIndex, currentIndex)]
patternStepCutsCorner(step, w, env) ==
    LET nextDirection == BitAnd(step, 15)
        rotated == directionIndexOf(nextDirection) + env.quad
        directionIndex == IF rotated > 4 THEN rotated - 4 ELSE rotated
        direction == dirVectors[directionIndex]
        currentOrientation == IF directionIndex % 2 > 0 THEN 0 ELSE 1
        turned == currentOrientation # w.lastOrientation
        currentIndex == IF turned THEN w.currentIndex + 1 ELSE w.currentIndex
        wp0 == IF turned
               THEN [w.wayPoints1 EXCEPT ![currentIndex] = w.wayPoints1[currentIndex - 1]]
               ELSE w.wayPoints1
        tar == BitAnd(step, TARGET_MASK) > 0
        sou == BitAnd(step, SOURCE_MASK) > 0
        shifted == ShiftLeft(ShiftRight(BitAnd(step, SIDE_MASK), 5), env.quad)
        side == IF shifted > 15 THEN ShiftRight(shifted, 4) ELSE shifted
        center == BitAnd(step, CENTER_MASK) > 0
        souTar == IF sou THEN 1 ELSE 2
        limit == IF center /\ currentOrientation = 0
                 THEN Plus(env.geo[souTar][1], env.offset[souTar][1])
                 ELSE IF center
                 THEN Plus(env.geo[souTar][2], env.offset[souTar][2])
                 ELSE env.limits[souTar][side]
        last == wp0[currentIndex]
        delta == IF limit = NaN \/ last[currentOrientation + 1] = NaN THEN NaN
                 ELSE (limit - last[currentOrientation + 1])
                         * direction[currentOrientation + 1]
        half == Abs(env.vertexSeperations[directionIndex]) \div 2
        moved == IF (sou \/ tar) /\ side < 9
                 THEN IF delta # NaN /\ delta > 0
                      THEN [last EXCEPT ![currentOrientation + 1] =
                                           @ + direction[currentOrientation + 1] * delta]
                      ELSE last
                 ELSE IF center
                 THEN <<Plus(last[1], half), Plus(last[2], half)>>
                 ELSE last
        wp1 == [wp0 EXCEPT ![currentIndex] = moved]
        rewind == /\ currentIndex > 0
                  /\ ~Differ(wp1[currentIndex][currentOrientation + 1],
                             wp1[currentIndex - 1][currentOrientation + 1])
    IN [wayPoints1 |-> wp1,
        currentIndex |-> IF rewind THEN currentIndex - 1 ELSE currentIndex,
        lastOrientation |-> IF rewind THEN w.lastOrientation ELSE currentOrientation,
        maxIndex |-> Max(w.maxIndex, currentIndex)]
patternStep(step, w, env) ==
    LET nextDirection == BitAnd(step, 15)
        rotated == directionIndexOf(nextDirection) + env.quad
        directionIndex == IF rotated > 4 THEN rotated - 4 ELSE rotated
        direction == dirVectors[directionIndex]
        currentOrientation == IF directionIndex % 2 > 0 THEN 0 ELSE 1
        turned == currentOrientation # w.lastOrientation
        currentIndex == IF turned THEN w.currentIndex + 1 ELSE w.currentIndex
        wp0 == IF turned
               THEN [w.wayPoints1 EXCEPT ![currentIndex] = w.wayPoints1[currentIndex - 1]]
               ELSE w.wayPoints1
        tar == BitAnd(step, TARGET_MASK) > 0
        sou == BitAnd(step, SOURCE_MASK) > 0
        shifted == ShiftLeft(ShiftRight(BitAnd(step, SIDE_MASK), 5), env.quad)
        side == IF shifted > 15 THEN ShiftRight(shifted, 4) ELSE shifted
        center == BitAnd(step, CENTER_MASK) > 0
        souTar == IF sou THEN 1 ELSE 2
        limit == IF center /\ currentOrientation = 0
                 THEN Plus(env.geo[souTar][1], env.offset[souTar][1])
                 ELSE IF center
                 THEN Plus(env.geo[souTar][2], env.offset[souTar][2])
                 ELSE env.limits[souTar][side]
        last == wp0[currentIndex]
        delta == IF limit = NaN \/ last[currentOrientation + 1] = NaN THEN NaN
                 ELSE (limit - last[currentOrientation + 1])
                         * direction[currentOrientation + 1]
        half == Abs(env.vertexSeperations[directionIndex]) \div 2
        moved == IF (sou \/ tar) /\ side < 9
                 THEN IF delta # NaN /\ delta > 0
                      THEN [last EXCEPT ![currentOrientation + 1] =
                                           @ + direction[currentOrientation + 1] * delta]
                      ELSE last
                 ELSE IF center
                 THEN <<Plus(last[1], direction[1] * half),
                        Plus(last[2], direction[2] * half)>>
                 ELSE last
        wp1 == [wp0 EXCEPT ![currentIndex] = moved]
        rewind == /\ currentIndex > 0
                  /\ ~Differ(wp1[currentIndex][currentOrientation + 1],
                             wp1[currentIndex - 1][currentOrientation + 1])
    IN [wayPoints1 |-> wp1,
        currentIndex |-> IF rewind THEN currentIndex - 1 ELSE currentIndex,
        lastOrientation |-> IF rewind THEN w.lastOrientation ELSE currentOrientation,
        maxIndex |-> Max(w.maxIndex, currentIndex)]

RECURSIVE patternLoop(_, _, _, _)
patternLoop(routePattern, i, w, env) ==
    IF i > Len(routePattern) THEN w
    ELSE patternLoop(routePattern, i + 1, patternStep(routePattern[i], w, env), env)

\* "for (let i = 0; i <= currentIndex; i++)": the way-points pushed to result.
\* The last one is left out when the count has the wrong parity.
emittedCountKeepsLast(currentIndex, initialOrientation, targetOrientation) ==
    currentIndex + 1
emittedCount(currentIndex, initialOrientation, targetOrientation) ==
    LET sameOrient == IF targetOrientation = initialOrientation THEN 0 ELSE 1
    IN IF sameOrient # (currentIndex + 1) % 2 THEN currentIndex ELSE currentIndex + 1

\* One iteration of "while (index < result.length)" of "Removes duplicates":
\* index is the position of result[index] counted from 1.
removeDuplicatesKeepsEntry(result, index) ==
    IF \/ result[index - 1].nil \/ result[index].nil
       \/ Differ(result[index - 1].x, result[index].x)
       \/ Differ(result[index - 1].y, result[index].y)
    THEN [result |-> result, index |-> index + 1]
    ELSE [result |-> result, index |-> index]
removeDuplicatesStep(result, index) ==
    IF \/ result[index - 1].nil \/ result[index].nil
       \/ Differ(result[index - 1].x, result[index].x)
       \/ Differ(result[index - 1].y, result[index].y)
    THEN [result |-> result, index |-> index + 1]
    ELSE [result |-> Splice(result, index), index |-> index]

\* "Removes duplicates"
RECURSIVE removeDuplicates(_, _)
removeDuplicates(result, index) ==
    IF index > Len(result) THEN result
    ELSE IF \/ result[index - 1].nil \/ result[index].nil
            \/ Differ(result[index - 1].x, result[index].x)
            \/ Differ(result[index - 1].y, result[index].y)
    THEN removeDuplicates(result, index + 1)
    ELSE removeDuplicates(Splice(result, index), index)

(***************************************************************************)
(* mxEdgeStyle.OrthConnector                                               *)
(***************************************************************************)

\* What a call leaves behind besides result: the error it raised, the branch it
\* took, the values it computed on the way, and the module-level scratch arrays.
NoTrace(scratch) ==
    [error |-> "none", path |-> "none",
     sourceBuffer |-> 0, targetBuffer |-> 0, tooShort |-> FALSE,
     dir |-> <<0, 0>>, quad |-> 0, sourceIndex |-> 0, targetIndex |-> 0,
     currentIndex |-> 0, maxIndex |-> 0, emitted |-> 0, trimmed |-> 0,
     geo |-> << <<0, 0, 0, 0>>, <<0, 0, 0, 0>> >>, offset |-> << <<0, 0>>, <<0, 0>> >>,
     wayPoints1 |-> scratch.wayPoints1, limits |-> scratch.limits,
     vertexSeperations |-> scratch.vertexSeperations]

\* `source == null ? false : graph.getModel().isEdge(source.cell)`, for the value
\* the identifier holds where the expression is evaluated.
isEdgeOf(terminal) == IF terminal.nil THEN FALSE ELSE terminal.isEdge

\* mxUtils.getPortConstraints(terminal, edge, source, defaultValue): the mask of
\* sides the edge may use at that end, resolved from the styles.
getPortConstraints(terminal, edge, source, defaultValue) ==
    IF source THEN edge.portConstraint[1] ELSE edge.portConstraint[2]

\* "Workaround for loop routing within buffer zone": target == source compares the
\* two clones scaleCellState made.
loopBuffers(source, target, sourceBuffer, targetBuffer) ==
    IF ~source.nil /\ ~target.nil /\ target.ref = source.ref
    THEN <<Max(sourceBuffer, targetBuffer), Max(sourceBuffer, targetBuffer)>>
    ELSE <<sourceBuffer, targetBuffer>>

\* tooShort: both end points fixed and closer than totalBuffer
tooShort(p0, pe, totalBuffer) ==
    /\ ~p0.nil /\ ~pe.nil
    /\ (pe.x - p0.x) * (pe.x - p0.x) + (pe.y - p0.y) * (pe.y - p0.y)
          < totalBuffer * totalBuffer

\* geo: the two rectangles as [x, y, width, height], the point itself with zero
\* size for an endpoint without a terminal, the rotated bounding box otherwise.
routeGeo(source, target, p0, pe) ==
    LET sourceRect == IF source.nil THEN [x |-> p0.x, y |-> p0.y, width |-> 0, height |-> 0]
                      ELSE getBoundingBox([x |-> source.x, y |-> source.y,
                                           width |-> source.width, height |-> source.height],
                                          source.rotation)
        targetRect == IF target.nil THEN [x |-> pe.x, y |-> pe.y, width |-> 0, height |-> 0]
                      ELSE getBoundingBox([x |-> target.x, y |-> target.y,
                                           width |-> target.width, height |-> target.height],
                                          target.rotation)
    IN << <<sourceRect.x, sourceRect.y, sourceRect.width, sourceRect.height>>,
          <<targetRect.x, targetRect.y, targetRect.width, targetRect.height>> >>

\* mxEdgeStyle.limits after "for (let i = 0; i < 2; i++)" over geo
routeLimits(limits0, geo, buffers) ==
    [i \in 1 .. 2 |->
        [limits0[i] EXCEPT ![1] = geo[i][1] - buffers[i],
                           ![2] = geo[i][2] - buffers[i],
                           ![4] = geo[i][1] + geo[i][3] + buffers[i],
                           ![8] = geo[i][2] + geo[i][4] + buffers[i]]]

\* mxEdgeStyle.vertexSeperations after the four Math.max assignments
routeSeperationsKeepsLarger(seperations0, geo, totalBuffer) ==
    [seperations0 EXCEPT
        ![1] = Max(geo[1][1] - (geo[2][1] + geo[2][3]) - totalBuffer, @),
        ![2] = Max(geo[1][2] - (geo[2][2] + geo[2][4]) - totalBuffer, @),
        ![4] = Max(geo[2][2] - (geo[1][2] + geo[1][4]) - totalBuffer, @),
        ![3] = Max(geo[2][1] - (geo[1][1] + geo[1][3]) - totalBuffer, @)]
routeSeperations(seperations0, geo, totalBuffer) ==
    [seperations0 EXCEPT
        ![1] = Max(geo[1][1] - (geo[2][1] + geo[2][3]) - totalBuffer, 0),
        ![2] = Max(geo[1][2] - (geo[2][2] + geo[2][4]) - totalBuffer, 0),
        ![4] = Max(geo[2][2] - (geo[1][2] + geo[1][4]) - totalBuffer, 0),
        ![3] = Max(geo[2][1] - (geo[1][1] + geo[1][3]) - totalBuffer, 0)]

\* currentTerm in the two rounds of the connection-constraint loop
routeTerms(source, target, p0, pe) ==
    <<IF source.nil THEN NullPoint ELSE p0, IF target.nil THEN NullPoint ELSE pe>>

\* portConstraint[0], portConstraint[1]
routePortConstraints(state, source, target) ==
    <<IF source.nil THEN DIRECTION_MASK_ALL
      ELSE getPortConstraints(source, state, TRUE, DIRECTION_MASK_ALL),
      IF target.nil THEN DIRECTION_MASK_ALL
      ELSE getPortConstraints(target, state, FALSE, DIRECTION_MASK_ALL)>>

\* Math.round(c * state.view.scale * 10) / 10
RoundToScreen(c, scale) == IF c = NaN THEN NaN ELSE ToScreen(c, scale)

\* result after "for (let i = 0; i <= currentIndex; i++)": the first `emitted`
\* way-points scaled back and pushed.
pushWayPoints(result, wayPoints, emitted, scale) ==
    result \o [i \in 1 .. emitted |->
                 Point(RoundToScreen(wayPoints[i - 1][1], scale),
                       RoundToScreen(wayPoints[i - 1][2], scale))]

\* The end of the routine: the way-points up to currentIndex are scaled back and
\* pushed, and adjacent duplicates are removed. w is what the pattern loop left.
routeEmit(state, buffers, result, scratch, quad, dir, newLimits, newSeperations, w) ==
    LET emitted == emittedCount(w.currentIndex, orientationOf(dir[1]), orientationOf(dir[2]))
    IN [result |->
          removeDuplicates(pushWayPoints(result, w.wayPoints1, emitted, state.scale), 2),
        trace |-> [NoTrace(scratch) EXCEPT
                     !.path = "pattern",
                     !.sourceBuffer = buffers[1], !.targetBuffer = buffers[2],
                     !.dir = dir, !.quad = quad,
                     !.sourceIndex = patternIndex(dir[1], quad),
                     !.targetIndex = patternIndex(dir[2], quad),
                     !.currentIndex = w.currentIndex, !.maxIndex = w.maxIndex,
                     !.emitted = emitted,
                     !.wayPoints1 = w.wayPoints1, !.limits = newLimits,
                     !.vertexSeperations = newSeperations]]

\* The way-points, currentIndex and lastOrientation the pattern loop starts from.
patternStart(wayPoints, dir, geo, offset, sourceBuffer) ==
    [wayPoints1 |-> [wayPoints EXCEPT
                       ![0] = firstWayPoint(dir[1], geo[1], offset[1], sourceBuffer)],
     currentIndex |-> 0, lastOrientation |-> orientationOf(dir[1]), maxIndex |-> 0]

\* What the pattern loop reads and does not change.
patternEnv(quad, geo, offset, newLimits, newSeperations) ==
    [quad |-> quad, geo |-> geo, offset |-> offset,
     limits |-> newLimits, vertexSeperations |-> newSeperations]

\* The route pattern for dir and quad is looked up and run from the first
\* way-point.
routeByPattern(state, buffers, result, scratch, geo, offset, quad, dir, newLimits, newSeperations) ==
    [routeEmit(state, buffers, result, scratch, quad, dir, newLimits, newSeperations,
               patternLoop(routePatterns[patternIndex(dir[1], quad)][patternIndex(dir[2], quad)],
                           1,
                           patternStart(scratch.wayPoints1, dir, geo, offset, buffers[1]),
                           patternEnv(quad, geo, offset, newLimits, newSeperations)))
        EXCEPT !.trace.geo = geo, !.trace.offset = offset]

\* Quadrant, connection constraints and directions for the rectangles geo and
\* the fixed points currentTerm.
routeDirections(state, buffers, result, scratch, geo, currentTerm, portConstraint) ==
    routeByPattern(state, buffers, result, scratch, geo,
                 <<constraintOffset(currentTerm[1], geo[1]),
                   constraintOffset(currentTerm[2], geo[2])>>,
                 quadrant((2 * geo[1][1] + geo[1][3]) - (2 * geo[2][1] + geo[2][3]),
                          (2 * geo[1][2] + geo[1][4]) - (2 * geo[2][2] + geo[2][4])),
                 resolveDirections(<<fixedDirection(currentTerm[1], geo[1]),
                                     fixedDirection(currentTerm[2], geo[2])>>,
                                   geo, portConstraint),
                 routeLimits(scratch.limits, geo, buffers),
                 routeSeperations(scratch.vertexSeperations, geo, buffers[1] + buffers[2]))

\* The pattern routing of OrthConnector, from "Determine the side(s) of the
\* source and target vertices" to the end; source and target are the scaled
\* clones, buffers the two jetty sizes.
orthRoute(state, source, target, p0, pe, buffers, result, scratch) ==
    routeDirections(state, buffers, result, scratch,
                    routeGeo(source, target, p0, pe),
                    routeTerms(source, target, p0, pe),
                    routePortConstraints(state, source, target))

\* mxEdgeStyle.OrthConnector(state, sourceScaled, targetScaled, controlHints,
\* result). Gives [result, trace].
\* Lines 1126-1129 read `source` and `target` above the `let` statements that
\* declare them (lines 1135-1136). A bundle that keeps `let` raises a
\* ReferenceError at the read; a bundle that turns `let` into a hoisted `var`
\* reads undefined there.
OrthConnector(bundle, state, sourceScaled, targetScaled, controlHints, result, scratch) ==
    IF bundle = "let"
    THEN [result |-> result, trace |-> [NoTrace(scratch) EXCEPT !.error = "ReferenceError"]]
    ELSE
    LET sourceEdge == isEdgeOf(NullState)
        targetEdge == isEdgeOf(NullState)
        scale == state.scale
        pts == scalePointArray(state.absolutePoints, scale)
        source == scaleCellState(sourceScaled, scale, 1)
        target == scaleCellState(targetScaled, scale, 2)
        p0 == pts[1]
        pe == pts[Len(pts)]
        jetty == <<getJettySize(state.style, TRUE).n * Unit,
                   getJettySize(state.style, FALSE).n * Unit>>
        buffers == loopBuffers(source, target, jetty[1], jetty[2])
        short == tooShort(p0, pe, buffers[1] + buffers[2])
    IN IF (source.nil /\ p0.nil) \/ (target.nil /\ pe.nil)
       THEN [result |-> result, trace |-> [NoTrace(scratch) EXCEPT !.error = "TypeError"]]
       ELSE IF short \/ Len(controlHints) > 0 \/ sourceEdge \/ targetEdge
       THEN LET seg == SegmentConnector(state, sourceScaled, targetScaled,
                                        controlHints, result)
            IN [result |-> seg.result,
                trace |-> [NoTrace(scratch) EXCEPT
                             !.error = seg.error, !.path = "segment",
                             !.trimmed = seg.trimmed,
                             !.sourceBuffer = buffers[1], !.targetBuffer = buffers[2],
                             !.tooShort = short]]
       ELSE orthRoute(state, source, target, p0, pe, buffers, result, scratch)

(***************************************************************************)
(* Part 3: calls of the router                                             *)
(***************************************************************************)

\* Bounds of the router model.
MaxCalls == 1
MaxHints == 4
MaxRepeats == 2
MaxCoord == 12

\* Coordinates n and n + 0.5
Px(n) == n * Unit
Hx(n) == n * Unit + Unit \div 2

Builds == {"let", "var"}

\* view.scale: 1 and 2
Scales == {[n |-> 1, d |-> 1], [n |-> 2, d |-> 1]}

\* A vertex's cell state; ref is the identity of the object.
Vertex(x, y, width, height, ref) ==
    [nil |-> FALSE, x |-> Px(x), y |-> Px(y), width |-> Px(width), height |-> Px(height),
     isEdge |-> FALSE, rotation |-> 0, ref |-> ref]

\* The cell state of an edge used as a terminal.
EdgeTerminal(x, y, width, height, ref) ==
    [Vertex(x, y, width, height, ref) EXCEPT !.isEdge = TRUE]

\* state.style of the routed edge.
DefaultStyle ==
    [sourceJettySize |-> Unset, targetJettySize |-> Unset, jettySize |-> Unset,
     startArrow |-> "none", endArrow |-> "none", startSize |-> Unset, endSize |-> Unset]

Styles ==
    {DefaultStyle,
     [DefaultStyle EXCEPT !.targetJettySize = Number(30)]}

\* The edge's cell state: view.scale, absolutePoints, style and port constraints.
EdgeState(scale, p0, pe, style, portConstraint) ==
    [scale |-> scale, absolutePoints |-> <<p0, pe>>, style |-> style,
     portConstraint |-> portConstraint]

Input(state, source, target, hints, result) ==
    [state |-> state, source |-> source, target |-> target, hints |-> hints,
     result |-> result]

SourceVertex == Vertex(0, 0, 32, 32, 11)

\* Targets around the source vertex, next to it and on top of it.
TargetVertices ==
    {Vertex(x, y, 32, 32, 12) : x \in {-96, 0, 96}, y \in {-96, 0, 96}}
    \cup {Vertex(40, 0, 32, 32, 12)}

\* view.scale with the port constraints of the two ends
ScaledConstraints ==
    {<<[n |-> 1, d |-> 1], <<DIRECTION_MASK_ALL, DIRECTION_MASK_ALL>> >>,
     <<[n |-> 2, d |-> 1], <<DIRECTION_MASK_ALL, DIRECTION_MASK_ALL>> >>,
     <<[n |-> 1, d |-> 1],
       <<DIRECTION_MASK_NORTH, DIRECTION_MASK_WEST + DIRECTION_MASK_SOUTH>> >>}

\* absolutePoints: both ends floating, both fixed at the middle of a side, or
\* the source end fixed only.
EndPoints(source, target) ==
    {<<NullPoint, NullPoint>>,
     <<Point(source.x + source.width, source.y + source.height \div 2),
       Point(target.x, target.y + target.height \div 2)>>,
     <<Point(source.x + source.width, source.y + source.height \div 2), NullPoint>>}

\* Two vertices and no hints.
VertexInputsTo(target) ==
    {Input(EdgeState(sc[1], ends[1], ends[2], DefaultStyle, sc[2]),
           SourceVertex, target, <<>>, <<ends[1]>>) :
        sc \in ScaledConstraints, ends \in EndPoints(SourceVertex, target)}

VertexInputs == UNION {VertexInputsTo(target) : target \in TargetVertices}

\* Waypoint hints: a point below the source vertex, a point inside it, and a
\* point inside the vertex at (96, 0).
HintBelow == Point(Px(16), Px(48))
HintInSource == Point(Hx(16), Px(8))
HintInTarget == Point(Px(100), Px(8))

RECURSIVE SeqsUpTo(_, _)
SeqsUpTo(S, n) ==
    IF n = 0 THEN {<<>>}
    ELSE LET shorter == SeqsUpTo(S, n - 1)
         IN shorter \cup {Append(q, e) : q \in {r \in shorter : Len(r) = n - 1}, e \in S}

\* A floating source, a fixed end point without a target shape, an empty result
\* array, and up to MaxHints hints that start below the source.
HintInputs ==
    {Input(EdgeState([n |-> 1, d |-> 1], NullPoint, Point(Px(80), Px(48)), DefaultStyle,
                     <<DIRECTION_MASK_ALL, DIRECTION_MASK_ALL>>),
           SourceVertex, NullState, <<HintBelow>> \o hints, <<>>) :
        hints \in SeqsUpTo({HintBelow, HintInSource}, MaxHints - 1)}

\* Both ends floating between two vertices, with hints in and out of the shapes.
FloatingInputs ==
    {Input(EdgeState(scale, NullPoint, NullPoint, DefaultStyle,
                     <<DIRECTION_MASK_ALL, DIRECTION_MASK_ALL>>),
           SourceVertex, Vertex(96, 0, 32, 32, 12), hints, <<NullPoint>>) :
        scale \in Scales,
        hints \in {<<HintInSource>>, <<HintInTarget>>, <<HintBelow, HintInTarget>>,
                   <<HintInSource, HintBelow>>, <<HintBelow, HintInTarget, HintInTarget>>}}

\* The fixed end point with its target: on the source's own shape, close to the
\* start point or not, or on a distant vertex.
FixedTargets ==
    {<<Point(Px(44), Px(0)), Vertex(0, 0, 64, 32, 11)>>,
     <<Point(Px(15), Px(16)), Vertex(0, 0, 64, 32, 11)>>,
     <<Point(Px(200), Px(16)), Vertex(200, 0, 64, 32, 12)>>}

\* Both ends fixed; the source a vertex, an edge, or absent.
FixedInputs ==
    {Input(EdgeState([n |-> 1, d |-> 1], Point(Px(0), Px(16)), to[1], style,
                     <<DIRECTION_MASK_ALL, DIRECTION_MASK_ALL>>),
           source, to[2], hints, <<Point(Px(0), Px(16))>>) :
        to \in FixedTargets,
        style \in Styles,
        source \in {Vertex(0, 0, 64, 32, 11), EdgeTerminal(0, 0, 64, 32, 11), NullState},
        hints \in {<<>>, <<Point(Px(32), Px(16))>>}}

\* An edge attached to nothing: no terminals and no end points, with and
\* without a hint.
UnattachedInputs ==
    {Input(EdgeState([n |-> 1, d |-> 1], NullPoint, NullPoint, DefaultStyle,
                     <<DIRECTION_MASK_ALL, DIRECTION_MASK_ALL>>),
           NullState, NullState, hints, <<>>) :
        hints \in {<<>>, <<HintBelow>>}}

\* Two vertices side by side, one end with a port constraint that names no side.
NoSideInputs ==
    {Input(EdgeState([n |-> 1, d |-> 1], NullPoint, NullPoint, DefaultStyle, portConstraint),
           SourceVertex, Vertex(96, 0, 32, 32, 12), <<>>, <<NullPoint>>) :
        portConstraint \in {<<DIRECTION_MASK_NONE, DIRECTION_MASK_ALL>>,
                            <<DIRECTION_MASK_EAST, DIRECTION_MASK_NONE>>}}

\* A dangling edge whose fixed end points are half a pixel apart; result holds
\* the start point, as the view leaves it before it calls the edge style.
ShortEdgeInput ==
    Input(EdgeState([n |-> 1, d |-> 1], Point(Px(0), Px(16)), Point(Hx(0), Px(16)),
                    DefaultStyle, <<DIRECTION_MASK_ALL, DIRECTION_MASK_ALL>>),
          NullState, NullState, <<>>, <<Point(Px(0), Px(16))>>)

\* A dangling edge one pixel long whose end point is half a pixel higher than
\* its start point; result holds the start point.
LineUpInput ==
    Input(EdgeState([n |-> 1, d |-> 1], Point(Px(10), Hx(10)), Point(Px(11), Px(10)),
                    DefaultStyle, <<DIRECTION_MASK_ALL, DIRECTION_MASK_ALL>>),
          NullState, NullState, <<>>, <<Point(Px(10), Hx(10))>>)

\* A fixed start point on a corner of the source vertex, and half a unit off
\* its left and its bottom side, with a port constraint that names another side.
CornerInputs ==
    {Input(EdgeState([n |-> 1, d |-> 1], p0, NullPoint, DefaultStyle,
                     <<DIRECTION_MASK_EAST, DIRECTION_MASK_ALL>>),
           SourceVertex, target, <<>>, <<p0>>) :
        p0 \in {Point(0, 0), Point(Px(32), Px(32)), Point(Hx(0), Px(16)),
                Point(Px(16), Hx(31))},
        target \in {Vertex(96, 0, 32, 32, 12), Vertex(-96, 96, 32, 32, 12)}}

RouterInputs ==
    VertexInputs \cup HintInputs \cup FloatingInputs \cup FixedInputs
        \cup UnattachedInputs \cup CornerInputs \cup NoSideInputs \cup {ShortEdgeInput, LineUpInput}

InitialWayPoints1 == [i \in 0 .. 11 |-> <<0, 0>>]
InitialLimits == [i \in 1 .. 2 |-> [k \in 0 .. 8 |-> 0]]
\* `vertexSeperations: []`: the entries 1..4 exist once a call has written them
InitialVertexSeperations == [k \in 1 .. 4 |-> 0]

NoCall ==
    [op |-> "none", input |-> Input(EdgeState([n |-> 1, d |-> 1], NullPoint, NullPoint,
                                              DefaultStyle, <<0, 0>>),
                                    NullState, NullState, <<>>, <<>>),
     result |-> <<>>,
     trace |-> NoTrace([wayPoints1 |-> InitialWayPoints1, limits |-> InitialLimits,
                        vertexSeperations |-> InitialVertexSeperations])]

\* No call of OrthConnector is under way.
NoRun ==
    [phase |-> "idle", input |-> NoCall.input, routePattern |-> <<>>, i |-> 0,
     w |-> patternStart(InitialWayPoints1, <<0, 0>>, NoCall.trace.geo, NoCall.trace.offset, 0),
     result |-> <<>>, index |-> 0, iterations |-> 0, pushed |-> 0, trace |-> NoCall.trace,
     returns |-> <<>>]

InitRouter ==
    /\ build \in Builds
    /\ wayPoints1 = InitialWayPoints1
    /\ limits = InitialLimits
    /\ vertexSeperations = InitialVertexSeperations
    /\ calls = 0
    /\ call = NoCall
    /\ run = NoRun

Scratch == [wayPoints1 |-> wayPoints1, limits |-> limits,
            vertexSeperations |-> vertexSeperations]

\* What a call of mxEdgeStyle.OrthConnector does to result and to the scratch
\* arrays of mxEdgeStyle.
OrthConnectorCall(in) ==
    /\ \E out \in {OrthConnector(build, in.state, in.source, in.target, in.hints,
                                in.result, Scratch)} :
          /\ call' = [op |-> "OrthConnector", input |-> in, result |-> out.result,
                      trace |-> out.trace]
          /\ wayPoints1' = out.trace.wayPoints1
          /\ limits' = out.trace.limits
          /\ vertexSeperations' = out.trace.vertexSeperations
    /\ calls' = calls + 1
    /\ UNCHANGED <<build, run>>
    /\ UNCHANGED <<rpcVars, handlerVars>>

\* One call of mxEdgeStyle.OrthConnector by the rendering pipeline.
CallOrthConnector(in) ==
    /\ calls < MaxCalls
    /\ OrthConnectorCall(in)

\* One call of mxEdgeStyle.SegmentConnector.
CallSegmentConnector(in) ==
    /\ calls < MaxCalls
    /\ \E out \in {SegmentConnector(in.state, in.source, in.target, in.hints, in.result)} :
          call' = [op |-> "SegmentConnector", input |-> in, result |-> out.result,
                   trace |-> [NoTrace(Scratch) EXCEPT !.error = out.error,
                                                      !.path = "segment",
                                                      !.trimmed = out.trimmed]]
    /\ calls' = calls + 1
    /\ UNCHANGED <<build, wayPoints1, limits, vertexSeperations, run>>
    /\ UNCHANGED <<rpcVars, handlerVars>>

NextRouter ==
    \/ \E in \in RouterInputs : CallOrthConnector(in)
    \/ \E in \in RouterInputs : CallSegmentConnector(in)

\* Edges routed one after another on the same scratch arrays: the edges between
\* two vertices at scale 1 with every side allowed.
ScratchInputs ==
    {in \in VertexInputs :
        /\ in.state.scale.n = 1
        /\ in.state.portConstraint = <<DIRECTION_MASK_ALL, DIRECTION_MASK_ALL>>}

\* A call of OrthConnector in a sequence of up to MaxRepeats calls.
RepeatOrthConnector(in) ==
    /\ calls < MaxRepeats
    /\ OrthConnectorCall(in)

NextScratch == \E in \in ScratchInputs : RepeatOrthConnector(in)

(***************************************************************************)
(* mxEdgeStyle.scalePointArray on its own                                   *)
(***************************************************************************)

\* view.scale from 0.5 to 4
WideScales ==
    {[n |-> 1, d |-> 2], [n |-> 1, d |-> 1], [n |-> 2, d |-> 1], [n |-> 3, d |-> 1],
     [n |-> 4, d |-> 1]}

\* Coordinates in steps of 1 / Unit around the origin
Coords == -MaxCoord .. MaxCoord

\* absolutePoints with one point and one null entry, at each scale.
ScaleInputs ==
    {Input(EdgeState(scale, Point(x, y), NullPoint, DefaultStyle,
                     <<DIRECTION_MASK_ALL, DIRECTION_MASK_ALL>>),
           NullState, NullState, <<>>, <<>>) :
        scale \in WideScales, x \in Coords, y \in {0, Unit \div 5}}

\* One call of mxEdgeStyle.scalePointArray(state.absolutePoints, state.view.scale)
CallScalePointArray(in) ==
    /\ calls < MaxCalls
    /\ call' = [op |-> "scalePointArray", input |-> in,
                result |-> scalePointArray(in.state.absolutePoints, in.state.scale),
                trace |-> NoTrace(Scratch)]
    /\ calls' = calls + 1
    /\ UNCHANGED <<build, wayPoints1, limits, vertexSeperations, run>>
    /\ UNCHANGED <<rpcVars, handlerVars>>

NextScale == \E in \in ScaleInputs : CallScalePointArray(in)

(***************************************************************************)
(* mxEdgeStyle.getJettySize on its own                                      *)
(***************************************************************************)

\* What a jetty-size key of the style may hold
JettyValues == {Unset, Number(0), Number(30), Auto, Text}

\* Edge styles with every value of the jetty key of one end and of the shared
\* key, the other end set to 50; an arrow at one end only, of size 15 at the
\* start or 25 at the end, or of the default size.
JettyStyles ==
    {[DefaultStyle EXCEPT !.sourceJettySize = own[1], !.targetJettySize = own[2],
                          !.jettySize = shared, !.startArrow = arrow[1],
                          !.endArrow = arrow[2], !.startSize = size[1],
                          !.endSize = size[2]] :
        own \in (JettyValues \X {Number(50)}) \cup ({Number(50)} \X JettyValues),
        shared \in JettyValues,
        arrow \in {<<"none", "classic">>, <<"classic", "none">>},
        size \in {<<Unset, Number(25)>>, <<Number(15), Unset>>}}

\* One call of mxEdgeStyle.getJettySize(state, isSource)
CallGetJettySize(style, isSource) ==
    /\ calls < MaxCalls
    /\ call' = [op |-> "getJettySize",
                input |-> Input(EdgeState([n |-> 1, d |-> 1], NullPoint, NullPoint, style,
                                          <<DIRECTION_MASK_ALL, DIRECTION_MASK_ALL>>),
                                NullState, NullState, <<>>, <<>>),
                result |-> <<>>, trace |-> NoTrace(Scratch),
                isSource |-> isSource, value |-> getJettySize(style, isSource)]
    /\ calls' = calls + 1
    /\ UNCHANGED <<build, wayPoints1, limits, vertexSeperations, run>>
    /\ UNCHANGED <<rpcVars, handlerVars>>

NextJetty == \E style \in JettyStyles, isSource \in BOOLEAN : CallGetJettySize(style, isSource)

(***************************************************************************)
(* Terminals of zero width or zero height                                  *)
(***************************************************************************)

\* Shapes without width, without height, and without both.
FlatVertices(x, y, ref) ==
    {Vertex(x, y, 0, 32, ref), Vertex(x, y, 32, 0, ref), Vertex(x, y, 0, 0, ref)}

\* A flat source with vertices around it, and a flat target below and right of
\* the source vertex.
FlatInputs ==
    {Input(EdgeState(scale, p0, NullPoint, DefaultStyle,
                     <<DIRECTION_MASK_ALL, DIRECTION_MASK_ALL>>),
           source, target, <<>>, <<p0>>) :
        scale \in Scales,
        source \in FlatVertices(0, 0, 11),
        target \in TargetVertices,
        p0 \in {NullPoint, Point(0, 0), Point(0, Px(16)), Point(Px(16), 0)}}
    \cup
    {Input(EdgeState(scale, NullPoint, pe, DefaultStyle,
                     <<DIRECTION_MASK_ALL, DIRECTION_MASK_ALL>>),
           SourceVertex, target, <<>>, <<NullPoint>>) :
        scale \in Scales,
        target \in FlatVertices(96, 96, 12),
        pe \in {NullPoint, Point(Px(96), Px(96)), Point(Px(96), Px(112)),
                Point(Px(112), Px(96))}}

NextFlat == \E in \in FlatInputs : CallOrthConnector(in)

(***************************************************************************)
(* Every route pattern in every quadrant                                   *)
(***************************************************************************)

\* Floating ends between the source vertex and a target in each quadrant and
\* straight beside, above and below it, with port constraints that name one
\* side at each end: every pair of directions in every quadrant.
PatternInputs ==
    {Input(EdgeState([n |-> 1, d |-> 1], NullPoint, NullPoint, DefaultStyle,
                     <<sourceSide, targetSide>>),
           SourceVertex, target, <<>>, <<NullPoint>>) :
        sourceSide \in {DIRECTION_MASK_WEST, DIRECTION_MASK_NORTH,
                        DIRECTION_MASK_SOUTH, DIRECTION_MASK_EAST},
        targetSide \in {DIRECTION_MASK_WEST, DIRECTION_MASK_NORTH,
                        DIRECTION_MASK_SOUTH, DIRECTION_MASK_EAST},
        target \in TargetVertices}

(***************************************************************************)
(* OrthConnector loop by loop: every iteration of the pattern loop and of   *)
(* the duplicate removal is a step.                                         *)
(***************************************************************************)

\* A target that overlaps the source vertex, one inside it and one around it.
OverlapTargets ==
    {Vertex(16, 16, 32, 32, 12), Vertex(8, 8, 16, 16, 12), Vertex(-16, -16, 64, 64, 12)}

\* An edge without a source jetty between fixed points on the facing sides of
\* two vertices closer than the target jetty: its first way-point is the start
\* point already in result.
NoJettyInput ==
    Input(EdgeState([n |-> 1, d |-> 1], Point(Px(32), Px(16)), Point(Px(40), Px(80)),
                    [DefaultStyle EXCEPT !.sourceJettySize = Number(0)],
                    <<DIRECTION_MASK_ALL, DIRECTION_MASK_ALL>>),
          SourceVertex, Vertex(40, 64, 32, 32, 12), <<>>, <<Point(Px(32), Px(16))>>)

LoopInputs ==
    {in \in ScratchInputs : in.state.absolutePoints = <<NullPoint, NullPoint>>}
    \cup {Input(EdgeState([n |-> 1, d |-> 1], NullPoint, NullPoint, DefaultStyle,
                         <<DIRECTION_MASK_ALL, DIRECTION_MASK_ALL>>),
               SourceVertex, target, <<>>, <<NullPoint>>) : target \in OverlapTargets}
    \cup {NoJettyInput}

\* OrthConnector is entered and runs up to the pattern loop, or up to its return
\* when it raises an error or hands over to SegmentConnector.
EnterOrthConnector(in) ==
    /\ run.phase \in {"idle", "returned"}
    /\ calls < MaxCalls
    /\ \E out \in {OrthConnector(build, in.state, in.source, in.target, in.hints,
                                  in.result, Scratch)} :
          run' = IF out.trace.path = "pattern"
                 THEN [phase |-> "pattern", input |-> in,
                       routePattern |-> routePatterns[out.trace.sourceIndex][out.trace.targetIndex],
                       i |-> 1,
                       w |-> patternStart(wayPoints1, out.trace.dir, out.trace.geo,
                                          out.trace.offset, out.trace.sourceBuffer),
                       result |-> in.result, index |-> 0, iterations |-> 0, pushed |-> 0,
                       trace |-> out.trace, returns |-> out.result]
                 ELSE [NoRun EXCEPT !.phase = "return", !.input = in,
                                    !.result = out.result, !.trace = out.trace,
                                    !.returns = out.result]
    /\ calls' = calls + 1
    /\ UNCHANGED <<build, wayPoints1, limits, vertexSeperations, call>>
    /\ UNCHANGED <<rpcVars, handlerVars>>

\* One iteration of "for (let i = 0; i < routePattern.length; i++)"
PatternIteration ==
    /\ run.phase = "pattern"
    /\ run.i <= Len(run.routePattern)
    /\ run' = [run EXCEPT
                 !.w = patternStep(run.routePattern[run.i], run.w,
                                   patternEnv(run.trace.quad, run.trace.geo, run.trace.offset,
                                              run.trace.limits, run.trace.vertexSeperations)),
                 !.i = @ + 1,
                 !.iterations = @ + 1]
    /\ UNCHANGED <<build, wayPoints1, limits, vertexSeperations, calls, call>>
    /\ UNCHANGED <<rpcVars, handlerVars>>

\* The pattern loop is over: the way-points are pushed to result.
PushWayPoints ==
    /\ run.phase = "pattern"
    /\ run.i > Len(run.routePattern)
    /\ \E emitted \in {emittedCount(run.w.currentIndex, orientationOf(run.trace.dir[1]),
                                     orientationOf(run.trace.dir[2]))} :
          run' = [run EXCEPT
                    !.phase = "dedup",
                    !.result = pushWayPoints(run.result, run.w.wayPoints1, emitted,
                                             run.input.state.scale),
                    !.pushed = Len(run.result) + emitted,
                    !.index = 2,
                    !.iterations = 0]
    /\ UNCHANGED <<build, wayPoints1, limits, vertexSeperations, calls, call>>
    /\ UNCHANGED <<rpcVars, handlerVars>>

\* One iteration of "while (index < result.length)"
RemoveDuplicatesIteration ==
    /\ run.phase = "dedup"
    /\ run.index <= Len(run.result)
    /\ \E next \in {removeDuplicatesStep(run.result, run.index)} :
          run' = [run EXCEPT !.result = next.result, !.index = next.index,
                             !.iterations = @ + 1]
    /\ UNCHANGED <<build, wayPoints1, limits, vertexSeperations, calls, call>>
    /\ UNCHANGED <<rpcVars, handlerVars>>

\* OrthConnector returns: result and the scratch arrays are as the loops left them.
ReturnOrthConnector ==
    /\ \/ run.phase = "return"
       \/ run.phase = "dedup" /\ run.index > Len(run.result)
    /\ run' = [run EXCEPT !.phase = "returned"]
    /\ call' = [op |-> "OrthConnector", input |-> run.input, result |-> run.result,
                trace |-> IF run.phase = "return" THEN run.trace
                          ELSE [run.trace EXCEPT !.wayPoints1 = run.w.wayPoints1,
                                                 !.currentIndex = run.w.currentIndex,
                                                 !.maxIndex = run.w.maxIndex]]
    /\ wayPoints1' = IF run.phase = "return" THEN run.trace.wayPoints1 ELSE run.w.wayPoints1
    /\ limits' = run.trace.limits
    /\ vertexSeperations' = run.trace.vertexSeperations
    /\ UNCHANGED <<build, calls>>
    /\ UNCHANGED <<rpcVars, handlerVars>>

\* The steps of a call that has been entered.
RunOrthConnector ==
    \/ PatternIteration
    \/ PushWayPoints
    \/ RemoveDuplicatesIteration
    \/ ReturnOrthConnector

NextPattern ==
    \/ \E in \in PatternInputs : EnterOrthConnector(in)
    \/ PatternIteration
    \/ PushWayPoints
    \/ RemoveDuplicatesIteration
    \/ ReturnOrthConnector

NextLoops ==
    \/ \E in \in LoopInputs : EnterOrthConnector(in)
    \/ RunOrthConnector

(***************************************************************************)
(* Part 4: mxSelectionCellsHandler and mxConstraintHandler                 *)
(***************************************************************************)

\* Bounds of the handler model.
MaxCells == 2
MaxChanges == 2
MaxRefreshes == 2
MaxUpdates == 2
MaxEvents == 2

Cells == 1 .. MaxCells

\* An event listener: the object it is registered on, the event name and the
\* function.
Listener(target, name, f) == [target |-> target, name |-> name, f |-> f]

\* The listeners the constructor of mxSelectionCellsHandler adds
RefreshListeners ==
    {Listener("selectionModel", "change", "refreshHandler"),
     Listener("model", "change", "refreshHandler"),
     Listener("view", "scale", "refreshHandler"),
     Listener("view", "translate", "refreshHandler"),
     Listener("view", "scaleAndTranslate", "refreshHandler"),
     Listener("view", "down", "refreshHandler"),
     Listener("view", "up", "refreshHandler")}

\* The listeners the constructor of mxConstraintHandler adds
ResetListeners ==
    {Listener("model", "change", "resetHandler"),
     Listener("view", "scaleAndTranslate", "resetHandler"),
     Listener("view", "translate", "resetHandler"),
     Listener("view", "scale", "resetHandler"),
     Listener("graph", "root", "resetHandler")}

\* mxEventSource.removeListener(funct) on the event source target
removeListener(listeners, target, f) ==
    {l \in listeners : ~(l.target = target /\ l.f = f)}

\* mxEvent.removeListener(element, eventName, funct)
removeElementListener(listeners, element, name, f) ==
    listeners \ {Listener(element, name, f)}

\* mxDictionary: cells to values, 0 where the dictionary has no entry.
EmptyDictionary == [c \in Cells |-> 0]
dictionaryPut(dict, key, value) == [dict EXCEPT ![key] = value]
\* mxDictionary.remove(key): the value removed and the dictionary left
dictionaryRemove(dict, key) == [value |-> dict[key], dict |-> [dict EXCEPT ![key] = 0]]

\* mxUtils.sortCells(cells, false): the cells in ascending order
RECURSIVE sortCells(_)
sortCells(cells) ==
    IF cells = {} THEN <<>>
    ELSE LET first == CHOOSE c \in cells : \A d \in cells : c <= d
         IN <<first>> \o sortCells(cells \ {first})

\* graph.createHandler(state): a new handler for the state's cell
createHandler(cell, state) ==
    [cell |-> cell, state |-> state, destroyed |-> 0]

\* handler.destroy() of the handler numbered h
destroyHandler(created, h) == [created EXCEPT ![h].destroyed = @ + 1]

\* The body of "Destroys or updates old handlers" for tmp[i] = cell, whose view
\* state is state (0 for null). s holds this.handlers, oldHandlers, and every
\* handler created so far. handler.refresh() and handler.redraw() repaint a
\* handler that is kept and leave the map and the handler's state as they are.
updateOldHandlerKeepsDestroyed(cell, state, s) ==
    IF state = 0 THEN s
    ELSE LET taken == dictionaryRemove(s.oldHandlers, cell)
             h == taken.value
         IN IF h = 0 THEN [s EXCEPT !.oldHandlers = taken.dict]
            ELSE IF s.created[h].state # state
            THEN [s EXCEPT !.oldHandlers = taken.dict,
                           !.created = destroyHandler(@, h),
                           !.handlers = dictionaryPut(@, cell, h)]
            ELSE [s EXCEPT !.oldHandlers = taken.dict,
                           !.handlers = dictionaryPut(@, cell, h)]
updateOldHandler(cell, state, s) ==
    IF state = 0 THEN s
    ELSE LET taken == dictionaryRemove(s.oldHandlers, cell)
             h == taken.value
         IN IF h = 0 THEN [s EXCEPT !.oldHandlers = taken.dict]
            ELSE IF s.created[h].state # state
            THEN [s EXCEPT !.oldHandlers = taken.dict,
                           !.created = destroyHandler(@, h)]
            ELSE [s EXCEPT !.oldHandlers = taken.dict,
                           !.handlers = dictionaryPut(@, cell, h)]

RECURSIVE updateOldHandlers(_, _, _, _)
updateOldHandlers(tmp, i, states, s) ==
    IF i > Len(tmp) THEN s
    ELSE updateOldHandlers(tmp, i + 1, states, updateOldHandler(tmp[i], states[tmp[i]], s))

\* "Destroys unused handlers": oldHandlers.visit fires REMOVE and destroys every
\* handler left in oldHandlers.
destroyUnused(s) ==
    [s EXCEPT !.created = [h \in DOMAIN s.created |->
                              IF \E c \in Cells : s.oldHandlers[c] = h
                              THEN [s.created[h] EXCEPT !.destroyed = @ + 1]
                              ELSE s.created[h]],
              !.removed = Cardinality({c \in Cells : s.oldHandlers[c] # 0})]

\* The body of "Creates new handlers and updates parent highlight on existing
\* handlers" for tmp[i] = cell.
createNewHandler(cell, state, s) ==
    IF state = 0 \/ s.handlers[cell] # 0 THEN s
    ELSE [s EXCEPT !.created = Append(@, createHandler(cell, state)),
                   !.handlers = dictionaryPut(@, cell, Len(s.created) + 1),
                   !.added = @ + 1]

RECURSIVE createNewHandlers(_, _, _, _)
createNewHandlers(tmp, i, states, s) ==
    IF i > Len(tmp) THEN s
    ELSE createNewHandlers(tmp, i + 1, states, createNewHandler(tmp[i], states[tmp[i]], s))

\* mxSelectionCellsHandler.prototype.refresh
refresh(handlers, created, selectionCells, states) ==
    createNewHandlers(sortCells(selectionCells), 1, states,
        destroyUnused(
            updateOldHandlers(sortCells(selectionCells), 1, states,
                              [handlers |-> EmptyDictionary, oldHandlers |-> handlers,
                               created |-> created, added |-> 0, removed |-> 0])))

\* The graph has MaxCells cells, none selected, each with a view state of its
\* own; the two handlers have been constructed on it.
InitHandlers ==
    /\ graph = [selectionCells |-> {}, states |-> [c \in Cells |-> c],
                stateIds |-> MaxCells, changes |-> 0,
                container |-> FALSE, listeners |-> RefreshListeners \cup ResetListeners]
    /\ selectionCellsHandler =
          [handlers |-> EmptyDictionary, created |-> <<>>, refreshes |-> 0,
           refreshed |-> FALSE, added |-> 0, removed |-> 0,
           before |-> [handlers |-> EmptyDictionary, created |-> <<>>]]
    /\ constraintHandler =
          [resetHandler |-> "resetHandler", mouseleaveHandler |-> "null",
           currentFocus |-> 0, destroyed |-> FALSE, updates |-> 0, events |-> 0]

\* graph.setSelectionCells(cells)
setSelectionCells(cells) ==
    /\ graph.changes < MaxChanges
    /\ cells # graph.selectionCells
    /\ graph' = [graph EXCEPT !.selectionCells = cells, !.changes = @ + 1]
    /\ selectionCellsHandler' = [selectionCellsHandler EXCEPT !.refreshed = FALSE]
    /\ UNCHANGED constraintHandler
    /\ UNCHANGED <<rpcVars, routerVars>>

\* The view validates a cell: graph.view.getState(cell) is a new state object.
validateCell(c) ==
    /\ graph.changes < MaxChanges
    /\ graph' = [graph EXCEPT !.states[c] = graph.stateIds + 1, !.stateIds = @ + 1,
                              !.changes = @ + 1]
    /\ selectionCellsHandler' = [selectionCellsHandler EXCEPT !.refreshed = FALSE]
    /\ UNCHANGED constraintHandler
    /\ UNCHANGED <<rpcVars, routerVars>>

\* The view drops the state of a cell: graph.view.getState(cell) is null.
removeState(c) ==
    /\ graph.changes < MaxChanges
    /\ graph.states[c] # 0
    /\ graph' = [graph EXCEPT !.states[c] = 0, !.changes = @ + 1]
    /\ selectionCellsHandler' = [selectionCellsHandler EXCEPT !.refreshed = FALSE]
    /\ UNCHANGED constraintHandler
    /\ UNCHANGED <<rpcVars, routerVars>>

\* One call of mxSelectionCellsHandler.refresh()
Refresh ==
    /\ selectionCellsHandler.refreshes < MaxRefreshes
    /\ \E s \in {refresh(selectionCellsHandler.handlers, selectionCellsHandler.created,
                         graph.selectionCells, graph.states)} :
          selectionCellsHandler' =
             [handlers |-> s.handlers, created |-> s.created,
              refreshes |-> selectionCellsHandler.refreshes + 1,
              refreshed |-> TRUE, added |-> s.added, removed |-> s.removed,
              before |-> [handlers |-> selectionCellsHandler.handlers,
                          created |-> selectionCellsHandler.created]]
    /\ UNCHANGED <<graph, constraintHandler>>
    /\ UNCHANGED <<rpcVars, routerVars>>

NextSelection ==
    \/ \E cells \in SUBSET Cells : setSelectionCells(cells)
    \/ \E c \in Cells : validateCell(c)
    \/ \E c \in Cells : removeState(c)
    \/ Refresh

\* mxGraph.init(container): graph.container is set.
initContainer ==
    /\ ~graph.container
    /\ graph' = [graph EXCEPT !.container = TRUE]
    /\ UNCHANGED <<selectionCellsHandler, constraintHandler>>
    /\ UNCHANGED <<rpcVars, routerVars>>

\* The listeners after the "Lazy installation of mouseleave handler" of update
installMouseleave(listeners, handler, container) ==
    IF handler.mouseleaveHandler = "null" /\ container
    THEN listeners \cup {Listener("container", "mouseleave", handler.resetHandler)}
    ELSE listeners

\* mxConstraintHandler.prototype.update(me, source, existingEdge, point): handled
\* is isEnabled() && !isEventIgnored(me), focus the cell whose constraints the
\* mouse position selects (0 for none).
update(handled, focus) ==
    /\ ~constraintHandler.destroyed
    /\ constraintHandler.updates < MaxUpdates
    /\ focus # 0 => graph.states[focus] # 0
    /\ graph' = IF handled
                THEN [graph EXCEPT !.listeners =
                                      installMouseleave(@, constraintHandler, graph.container)]
                ELSE graph
    /\ constraintHandler' =
          IF handled
          THEN [constraintHandler EXCEPT
                  !.mouseleaveHandler = IF @ = "null" /\ graph.container
                                        THEN "mouseleaveHandler" ELSE @,
                  !.currentFocus = focus,
                  !.updates = @ + 1]
          ELSE [constraintHandler EXCEPT !.updates = @ + 1]
    /\ UNCHANGED selectionCellsHandler
    /\ UNCHANGED <<rpcVars, routerVars>>

\* An event source calls the registered listener l. resetHandler resets the
\* handler when the focused cell has lost its state and redraws otherwise;
\* refreshHandler belongs to the selection handler.
fireListener(l) ==
    /\ l \in graph.listeners
    /\ l.f = "resetHandler"
    /\ constraintHandler.events < MaxEvents
    /\ constraintHandler' =
          [constraintHandler EXCEPT
              !.currentFocus = IF @ # 0 /\ graph.states[@] = 0 THEN 0 ELSE @,
              !.events = @ + 1]
    /\ UNCHANGED <<graph, selectionCellsHandler>>
    /\ UNCHANGED <<rpcVars, routerVars>>

\* The listeners after mxConstraintHandler.prototype.destroy
destroyListeners(listeners, handler, container) ==
    LET reset == IF handler.resetHandler # "null"
                 THEN removeListener(removeListener(removeListener(listeners,
                          "model", handler.resetHandler),
                          "view", handler.resetHandler),
                          "graph", handler.resetHandler)
                 ELSE listeners
    IN IF handler.mouseleaveHandler # "null" /\ container
       THEN removeElementListener(reset, "container", "mouseleave", handler.mouseleaveHandler)
       ELSE reset

\* mxConstraintHandler.prototype.destroy
destroy ==
    /\ ~constraintHandler.destroyed
    /\ graph' = [graph EXCEPT !.listeners =
                                 destroyListeners(@, constraintHandler, graph.container)]
    /\ constraintHandler' =
          [constraintHandler EXCEPT
              !.currentFocus = 0,
              !.resetHandler = "null",
              !.mouseleaveHandler = IF @ # "null" /\ graph.container THEN "null" ELSE @,
              !.destroyed = TRUE]
    /\ UNCHANGED selectionCellsHandler
    /\ UNCHANGED <<rpcVars, routerVars>>

NextConstraint ==
    \/ initContainer
    \/ \E c \in Cells : validateCell(c)
    \/ \E c \in Cells : removeState(c)
    \/ \E handled \in BOOLEAN, focus \in {0} \cup Cells : update(handled, focus)
    \/ \E l \in RefreshListeners \cup ResetListeners
                 \cup {Listener("container", "mouseleave", "resetHandler"),
                       Listener("container", "mouseleave", "mouseleaveHandler")} :
          fireListener(l)
    \/ destroy

(***************************************************************************)
(* Properties of the router calls                                          *)
(***************************************************************************)

\* The end points and terminals of the last call at the router's working scale.
CallPoints == scalePointArray(call.input.state.absolutePoints, call.input.state.scale)
CallSource == scaleCellState(call.input.source, call.input.state.scale, 1)
CallTarget == scaleCellState(call.input.target, call.input.state.scale, 2)

\* sourceJetty and targetJetty as the edge's style gives them
SourceJetty == getJettySize(call.input.state.style, TRUE).n * Unit
TargetJetty == getJettySize(call.input.state.style, FALSE).n * Unit

\* What a direct call of SegmentConnector with the last call's arguments leaves
\* in result.
DirectSegmentResult ==
    SegmentConnector(call.input.state, call.input.source, call.input.target,
                     call.input.hints, call.input.result).result

OrthConnectorReturned == call.op = "OrthConnector" /\ call.trace.error = "none"

\* C6: when both end points are fixed and closer to one another than
\* sourceJetty + targetJetty, a call of OrthConnector takes the SegmentConnector
\* branch and leaves result as a direct SegmentConnector call on the same
\* arguments would.
C6_ShortEdgeIsSegmentConnector ==
    (call.op = "OrthConnector"
        /\ tooShort(CallPoints[1], CallPoints[2], SourceJetty + TargetJetty))
    => /\ call.trace.path = "segment"
       /\ call.result = DirectSegmentResult

\* C7: a call of OrthConnector that was given at least one waypoint hint, or an
\* edge as its source or target cell state, takes the SegmentConnector branch,
\* leaves result as SegmentConnector does and writes none of the scratch arrays
\* of the pattern routing.
C7_HintsOrEdgeDelegate ==
    (call.op = "OrthConnector"
        /\ (Len(call.input.hints) > 0 \/ isEdgeOf(call.input.source)
                                       \/ isEdgeOf(call.input.target)))
    => /\ call.trace.path = "segment"
       /\ call.result = DirectSegmentResult
       /\ call.trace.maxIndex = 0
       /\ call.trace.dir = <<0, 0>>

\* C8: when the source and the target passed to OrthConnector are the same
\* shape, both jetty sizes are max(sourceJetty, targetJetty) and the too-short
\* test compares the distance of the end points with twice that maximum.
C8_SameShapeUsesMaxJetty ==
    (OrthConnectorReturned
        /\ ~call.input.source.nil /\ ~call.input.target.nil
        /\ call.input.source.ref = call.input.target.ref)
    => /\ call.trace.sourceBuffer = Max(SourceJetty, TargetJetty)
       /\ call.trace.targetBuffer = Max(SourceJetty, TargetJetty)
       /\ (tooShort(CallPoints[1], CallPoints[2], 2 * Max(SourceJetty, TargetJetty))
            => call.trace.path = "segment")

\* Two neighbours of result are the same point.
AdjacentDuplicate(result) ==
    \E i \in 1 .. Len(result) - 1 :
        /\ ~result[i].nil /\ ~result[i + 1].nil
        /\ result[i].x = result[i + 1].x
        /\ result[i].y = result[i + 1].y

StrictlyInside(terminal, pt) ==
    /\ ~terminal.nil /\ ~pt.nil
    /\ terminal.x < pt.x /\ pt.x < terminal.x + terminal.width
    /\ terminal.y < pt.y /\ pt.y < terminal.y + terminal.height

\* pt is one of the edge's two fixed end points.
IsAnchor(pt) ==
    \E i \in {1, 2} : /\ ~call.input.state.absolutePoints[i].nil
                      /\ pt.x = call.input.state.absolutePoints[i].x
                      /\ pt.y = call.input.state.absolutePoints[i].y

Unattached ==
    /\ call.op # "none"
    /\ call.input.source.nil
    /\ call.input.target.nil
    /\ \A i \in 1 .. Len(call.input.state.absolutePoints) :
          call.input.state.absolutePoints[i].nil

\* C12: a call of OrthConnector or SegmentConnector, with or without hints,
\* that is given a null source, a null target and no end points raises no
\* error and leaves result as it was.
C12_UnattachedAddsNothing ==
    Unattached => (call.trace.error = "none" /\ call.result = call.input.result)

\* One of the four side bits and nothing else.
OneSide(direction) ==
    direction \in {DIRECTION_MASK_WEST, DIRECTION_MASK_NORTH,
                   DIRECTION_MASK_SOUTH, DIRECTION_MASK_EAST}

\* C13: when OrthConnector has resolved the directions and selects a pattern,
\* the direction of each end is exactly one of the four side bits, whatever the
\* geometry and the port-constraint masks.
C13_DirectionsAreOneSide ==
    (call.op = "OrthConnector" /\ call.trace.path = "pattern")
    => (OneSide(call.trace.dir[1]) /\ OneSide(call.trace.dir[2]))

Sides == {DIRECTION_MASK_WEST, DIRECTION_MASK_NORTH, DIRECTION_MASK_SOUTH, DIRECTION_MASK_EAST}

\* routePatterns has a pattern with at least one step at [sourceIndex - 1][targetIndex - 1]
InTable(sourceIndex, targetIndex) ==
    /\ sourceIndex \in 1 .. 4
    /\ targetIndex \in 1 .. 4
    /\ Len(routePatterns) = 4
    /\ Len(routePatterns[sourceIndex]) = 4
    /\ Len(routePatterns[sourceIndex][targetIndex]) > 0

\* C14: for every pair of side directions and every quadrant 0..3 the indices
\* pattern selection computes lie in 1..4 and name a pattern of the 4x4 table
\* routePatterns; the indices of every pattern-routed call are such a pair.
C14_PatternIsInTable ==
    /\ \A d0 \in Sides, d1 \in Sides, quad \in 0 .. 3 :
          InTable(patternIndex(d0, quad), patternIndex(d1, quad))
    /\ (call.op = "OrthConnector" /\ call.trace.path = "pattern")
       => /\ call.trace.quad \in 0 .. 3
          /\ call.trace.sourceIndex = patternIndex(call.trace.dir[1], call.trace.quad)
          /\ call.trace.targetIndex = patternIndex(call.trace.dir[2], call.trace.quad)
          /\ InTable(call.trace.sourceIndex, call.trace.targetIndex)

\* A pattern-routed call in quadrant 3 whose source index wrapped around.
C14_WrappedIndex ==
    /\ call.op = "OrthConnector"
    /\ call.trace.path = "pattern"
    /\ call.trace.quad = 3
    /\ OneSide(call.trace.dir[1])
    /\ directionIndexOf(call.trace.dir[1]) - call.trace.quad < 1
    /\ Len(call.result) > Len(call.input.result)

\* C15: every call of OrthConnector returns, also between rectangles that
\* overlap or contain one another; the pattern loop has run once for each step
\* of the selected pattern, the duplicate removal has run once for each entry
\* of result after the first, and the loops leave the result and the trace
\* that OrthConnector gives for the call.
C15_OrthConnectorReturns ==
    /\ (run.phase \in {"pattern", "dedup", "return"}) ~> (run.phase = "returned")
    /\ [](run.phase = "dedup" => run.i = Len(run.routePattern) + 1)
    /\ [](run.phase = "dedup" => run.iterations <= Max(run.pushed - 1, 0))
    /\ []((run.phase = "dedup" /\ run.index > Len(run.result))
            => run.iterations = Max(run.pushed - 1, 0))
    /\ [](run.phase = "returned" => (call.result = run.returns /\ call.trace = run.trace))

\* Two calls have returned after the pattern loop and the duplicate removal
\* ran: one between overlapping rectangles, one that removed a duplicate.
C15_LoopsReturned ==
    /\ run.phase = "returned"
    /\ run.trace.path = "pattern"
    /\ run.i > 1
    /\ run.iterations > 0
    /\ \/ run.input.target \in OverlapTargets
       \/ Len(call.result) < run.pushed

\* |c' * s - c| * scale.d for a coordinate c and its scaled-down value c', in
\* steps of 1 / Unit
RoundTripError(c, scaled, scale) == Abs(scaled * scale.n - c * scale.d)

\* Every non-null point of the last scalePointArray call, multiplied by the
\* scale again, is within `twice / 2` steps of the point it came from.
RoundTripWithin(twice) ==
    \A i \in 1 .. Len(call.result) :
        ~call.result[i].nil
        => LET p == call.input.state.absolutePoints[i]
               scale == call.input.state.scale
           IN /\ 2 * RoundTripError(p.x, call.result[i].x, scale) <= twice * scale.d
              /\ 2 * RoundTripError(p.y, call.result[i].y, scale) <= twice * scale.d

\* C16 as stated: scalePointArray(points, s), multiplied by s again, gives
\* back every coordinate to within 0.1.
C16_RoundTripWithinTenth ==
    call.op = "scalePointArray" => RoundTripWithin(2 * Tenth)

\* C16: scalePointArray(points, s) keeps null entries in place and, multiplied
\* by s again, gives back every coordinate to within 0.05 * s: half a tenth
\* lost to rounding in the scaled-down coordinate, times s.
C16_RoundTripWithinHalfTenthOfScale ==
    call.op = "scalePointArray"
    => /\ Len(call.result) = Len(call.input.state.absolutePoints)
       /\ \A i \in 1 .. Len(call.result) :
             call.result[i].nil = call.input.state.absolutePoints[i].nil
       /\ \A i \in 1 .. Len(call.result) :
             ~call.result[i].nil
             => LET p == call.input.state.absolutePoints[i]
                    scale == call.input.state.scale
                IN /\ 2 * RoundTripError(p.x, call.result[i].x, scale) <= Tenth * scale.n
                   /\ 2 * RoundTripError(p.y, call.result[i].y, scale) <= Tenth * scale.n

\* A point scaled down by more than 2 that comes back more than 0.1 away.
C16_FarRoundTrip ==
    /\ call.op = "scalePointArray"
    /\ call.input.state.scale.n > 2 * call.input.state.scale.d
    /\ ~RoundTripWithin(2 * Tenth)

Reverse(q) == [i \in 1 .. Len(q) |-> q[Len(q) + 1 - i]]

\* The points the last call added to result.
Appended == SubSeq(call.result, Len(call.input.result) + 1, Len(call.result))

\* The last call's edge routed the other way: terminals, end points and port
\* constraints swapped, into an empty result.
ReverseRoute ==
    OrthConnector(build,
                  [call.input.state EXCEPT !.absolutePoints = Reverse(@),
                                           !.portConstraint = Reverse(@)],
                  call.input.target, call.input.source, call.input.hints, <<>>,
                  [wayPoints1 |-> InitialWayPoints1, limits |-> InitialLimits,
                   vertexSeperations |-> InitialVertexSeperations])

\* Two vertices apart on both axes by more than the two jetties together, the
\* edge floating at both ends, not rotated and without hints.
NonDegenerate ==
    /\ ~call.input.source.nil /\ ~call.input.target.nil
    /\ call.input.state.absolutePoints = <<NullPoint, NullPoint>>
    /\ call.input.hints = <<>>
    /\ \/ CallSource.x + CallSource.width + SourceJetty + TargetJetty < CallTarget.x
       \/ CallTarget.x + CallTarget.width + SourceJetty + TargetJetty < CallSource.x
    /\ \/ CallSource.y + CallSource.height + SourceJetty + TargetJetty < CallTarget.y
       \/ CallTarget.y + CallTarget.height + SourceJetty + TargetJetty < CallSource.y

\* Two point sequences of the same length whose points are within 0.1 of one
\* another.
SamePoints(q, r) ==
    /\ Len(q) = Len(r)
    /\ \A i \in 1 .. Len(q) :
          /\ q[i].nil = r[i].nil
          /\ Abs(q[i].x - r[i].x) <= Tenth
          /\ Abs(q[i].y - r[i].y) <= Tenth

\* C17: for two vertices in general position, the points OrthConnector adds for
\* the edge and the points it adds for the edge routed the other way, with the
\* two port constraints swapped, are the reverse of one another within 0.1.
C17_ReverseRouteIsReversed ==
    (call.op = "OrthConnector" /\ call.trace.path = "pattern" /\ NonDegenerate)
    => SamePoints(Appended, Reverse(ReverseRoute.result))

\* C18: after a call of OrthConnector or SegmentConnector the entries result
\* held before the call are its first entries, unchanged and in the same order.
C18_ResultKeepsPrefix ==
    call.op \in {"OrthConnector", "SegmentConnector"}
    => /\ Len(call.result) >= Len(call.input.result)
       /\ SubSeq(call.result, 1, Len(call.input.result)) = call.input.result

\* The entries of result the caller put there and the call left in it: the
\* trimming loops and the duplicate removal never take out the first entry
\* while another follows it.
GivenEntries ==
    IF Len(call.input.result) > 0 /\ Len(call.result) > 0 THEN {1} ELSE {}

\* C19: a call of OrthConnector or SegmentConnector leaves every object it was
\* given with the value it had: the cell states it scales are clones, the
\* absolute points it scales are new points, and the points the caller put in
\* result hold the coordinates they held before the call.
C19_GivenObjectsKeepValue ==
    call.op \in {"OrthConnector", "SegmentConnector"}
    => /\ ~call.input.source.nil => CallSource.ref # call.input.source.ref
       /\ ~call.input.target.nil => CallTarget.ref # call.input.target.ref
       /\ \A i \in GivenEntries : call.result[i] = call.input.result[i]

\* The style value getJettySize looks up: the key of that end, else the key
\* for both ends, else orthBuffer.
JettyStyleValue ==
    getValue(IF call.isSource THEN call.input.state.style.sourceJettySize
             ELSE call.input.state.style.targetJettySize,
             getValue(call.input.state.style.jettySize, Number(orthBuffer)))

\* C20: when the jetty-size value of the style is neither a number nor "auto",
\* getJettySize returns the number 10.
C20_OtherValueGivesDefault ==
    (call.op = "getJettySize" /\ JettyStyleValue.kind \notin {"number", "auto"})
    => call.value = Number(orthBuffer)

\* The keys of the style that belong to the end getJettySize was asked about.
EndJettySize ==
    IF call.isSource THEN call.input.state.style.sourceJettySize
    ELSE call.input.state.style.targetJettySize
EndArrow ==
    IF call.isSource THEN call.input.state.style.startArrow
    ELSE call.input.state.style.endArrow
EndMarkerSize ==
    LET size == IF call.isSource THEN call.input.state.style.startSize
                ELSE call.input.state.style.endSize
    IN IF size = Unset THEN DEFAULT_MARKERSIZE ELSE size.n

\* The value of that end's key when set, else of the shared key, else 10.
ResolvedJettySize ==
    IF EndJettySize # Unset THEN EndJettySize
    ELSE IF call.input.state.style.jettySize # Unset THEN call.input.state.style.jettySize
    ELSE Number(10)

\* The smallest multiple of 10 that is at least n, and at least 20.
RoundedUp(n) ==
    LET m == CHOOSE k \in 2 .. n + 2 : k * 10 >= n /\ (k = 2 \/ (k - 1) * 10 < n)
    IN m * 10

\* C22: getJettySize returns the style value of the end asked about when set,
\* else the shared jetty-size value, else 10; for "auto" it returns the end's
\* marker size plus 10 rounded up to a multiple of 10, at least 20, when the end
\* has an arrow, and 20 when it has none. Nothing but the style and isSource
\* enters the result.
C22_JettySizeFromStyle ==
    call.op = "getJettySize"
    => call.value = IF ResolvedJettySize # Auto THEN ResolvedJettySize
                    ELSE IF EndArrow # "none" THEN Number(RoundedUp(EndMarkerSize + 10))
                    ELSE Number(20)
\* "auto" came from the shared key and the end has an arrow of a set size.
C22_AutoFromSharedKey ==
    /\ call.op = "getJettySize" /\ EndJettySize = Unset
    /\ call.input.state.style.jettySize = Auto /\ EndArrow # "none"
    /\ call.value = Number(40)

\* Twice the centre of rectangle i of the last call's geo.
Centre2X(i) == 2 * call.trace.geo[i][1] + call.trace.geo[i][3]
Centre2Y(i) == 2 * call.trace.geo[i][2] + call.trace.geo[i][4]
PatternCall == OrthConnectorReturned /\ call.trace.path = "pattern"

\* C23: the quadrant OrthConnector computes for the two rectangles is one of
\* 0..3: 0 with the target centre left of and above the source centre, 1 right
\* and above, 2 right and below, 3 left and below, and 2 with the centres at
\* the same x and the target below.
C23_QuadrantOfCentres ==
    PatternCall
    => /\ call.trace.quad \in 0 .. 3
       /\ (Centre2X(2) < Centre2X(1) /\ Centre2Y(2) < Centre2Y(1)) => call.trace.quad = 0
       /\ (Centre2X(2) > Centre2X(1) /\ Centre2Y(2) < Centre2Y(1)) => call.trace.quad = 1
       /\ (Centre2X(2) > Centre2X(1) /\ Centre2Y(2) > Centre2Y(1)) => call.trace.quad = 2
       /\ (Centre2X(2) < Centre2X(1) /\ Centre2Y(2) > Centre2Y(1)) => call.trace.quad = 3
       /\ (Centre2X(2) = Centre2X(1) /\ Centre2Y(2) > Centre2Y(1)) => call.trace.quad = 2
\* A target straight below the source was routed.
C23_TargetStraightBelow ==
    PatternCall /\ Centre2X(2) = Centre2X(1) /\ Centre2Y(2) > Centre2Y(1)

\* The source and the target direction of the last call lie on the same axis.
SameAxis == orientationOf(call.trace.dir[1]) = orientationOf(call.trace.dir[2])

\* C24: of the currentIndex + 1 way-points the pattern left, the last is pushed
\* only when their number is even with source and target direction on the same
\* axis and odd with the directions on different axes, and is dropped
\* otherwise; the number pushed is then even on the same axis and odd on
\* different axes.
C24_EmittedParity ==
    PatternCall
    => /\ call.trace.emitted = IF (call.trace.currentIndex + 1) % 2 = (IF SameAxis THEN 0 ELSE 1)
                               THEN call.trace.currentIndex + 1
                               ELSE call.trace.currentIndex
       /\ call.trace.emitted % 2 = (IF SameAxis THEN 0 ELSE 1)
\* The last way-point was dropped.
C24_LastDropped ==
    PatternCall /\ call.trace.emitted = call.trace.currentIndex /\ call.trace.emitted > 0

\* The sides of rectangle g whose edge the point p lies within 1 unit of.
NearSides(p, g) ==
    {side \in Sides :
        \/ side = DIRECTION_MASK_WEST /\ Abs(p.x - g[1]) <= Unit
        \/ side = DIRECTION_MASK_EAST /\ Abs(p.x - (g[1] + g[3])) <= Unit
        \/ side = DIRECTION_MASK_NORTH /\ Abs(p.y - g[2]) <= Unit
        \/ side = DIRECTION_MASK_SOUTH /\ Abs(p.y - (g[2] + g[4])) <= Unit}

\* End i of the last call is attached to a shape and has a fixed connection
\* point within 1 unit of an edge of the shape.
CallTerminal(i) == IF i = 1 THEN CallSource ELSE CallTarget
FixedOnEdge(i) ==
    /\ PatternCall /\ ~CallTerminal(i).nil /\ ~CallPoints[i].nil
    /\ NearSides(CallPoints[i], call.trace.geo[i]) # {}

\* C25: an endpoint attached to a shape, with a fixed connection point within 1
\* unit of an edge of the shape, gets the side of such an edge as its direction,
\* whatever the relative position of the shapes and the port constraint say.
C25_FixedPointGivesSide ==
    \A i \in 1 .. 2 :
        FixedOnEdge(i) => call.trace.dir[i] \in NearSides(CallPoints[i], call.trace.geo[i])
\* A start point fixed on the right side only, with a port constraint that does
\* not allow the right side and the target to the left.
C25_FixedAgainstMask ==
    /\ FixedOnEdge(1)
    /\ NearSides(CallPoints[1], call.trace.geo[1]) = {DIRECTION_MASK_EAST}
    /\ BitAnd(call.input.state.portConstraint[1], DIRECTION_MASK_EAST) = 0
    /\ Centre2X(2) < Centre2X(1)

\* C26: while a pattern is executed the current way-point index is an index
\* of the 12-entry way-point buffer, from 0 to 11, in every step of every
\* pattern in every quadrant.
C26_IndexInBuffer ==
    run.phase \in {"pattern", "dedup"}
    => /\ run.w.currentIndex >= 0 /\ run.w.currentIndex <= 11
       /\ run.w.maxIndex <= 11
       /\ DOMAIN run.w.wayPoints1 = 0 .. 11
\* A pattern took the index to its fifth way-point and back.
C26_IndexRewound ==
    run.phase = "pattern" /\ run.w.maxIndex >= 4 /\ run.w.currentIndex < run.w.maxIndex

\* Two points on a horizontal or a vertical line.
OnOneAxis(a, b) == a[1] = b[1] \/ a[2] = b[2]

\* C27: every two consecutive way-points the pattern execution has in the
\* active part of the buffer, indices 0 to currentIndex, differ in at most one
\* coordinate, after a rewind too, and so do every two consecutive points the
\* call has pushed to result.
C27_SegmentsOnOneAxis ==
    run.phase \in {"pattern", "dedup"}
    => /\ \A k \in 1 .. run.w.currentIndex :
             OnOneAxis(run.w.wayPoints1[k - 1], run.w.wayPoints1[k])
       /\ \A k \in Len(run.input.result) + 1 .. Len(run.result) - 1 :
             \/ run.result[k].x = run.result[k + 1].x
             \/ run.result[k].y = run.result[k + 1].y
\* Way-points were pushed after the pattern had rewound one.
C27_PushedAfterRewind ==
    /\ run.phase = "dedup" /\ run.w.maxIndex > run.w.currentIndex
    /\ run.w.currentIndex >= 2 /\ Len(run.result) >= Len(run.input.result) + 3

\* Request i was handed to the worker and no reply has reached its callback.
AwaitsReply(i) == requests[i].handed = 1 /\ requests[i].calls = 0

\* C28: after any sequence of sends and replies the callback table of a
\* WorkerPromise holds exactly the ids of its requests that were handed to the
\* worker and have not been replied to; a send in which worker.postMessage
\* throws leaves a rejected promise and no callback for its id.
C28_TableIsPendingRequests ==
    \A w \in Instances, id \in MessageIdDomain :
        callbacks[w][id] # 0
        <=> \E i \in 1 .. Len(requests) :
               requests[i].inst = w /\ requests[i].id = id /\ AwaitsReply(i)
\* A send whose worker.postMessage threw: the promise is rejected and its
\* callback is still in the table.
C28_CallbackOfFailedSend ==
    \E i \in 1 .. Len(requests) :
        /\ requests[i].handed = 0 /\ requests[i].status = "rejected"
        /\ callbacks[requests[i].inst][requests[i].id] = i

\* The cells the handler map has an entry for, and the handlers in a map.
HandledCells(handlers) == {c \in Cells : handlers[c] # 0}
HandlersOf(handlers) == {handlers[c] : c \in HandledCells(handlers)}

\* How often the last refresh() destroyed handler h, which existed before it.
DestroyedByRefresh(h) ==
    selectionCellsHandler.created[h].destroyed
        - selectionCellsHandler.before.created[h].destroyed

\* C29: after refresh() the keys of the handler map are exactly the selected
\* cells that have a view state, and every handler the map held before the call
\* is either still in the map and was not destroyed, or is no longer in the map
\* and was destroyed exactly once.
C29_RefreshKeepsOrDestroys ==
    selectionCellsHandler.refreshed
    => /\ HandledCells(selectionCellsHandler.handlers)
             = {c \in graph.selectionCells : graph.states[c] # 0}
       /\ \A h \in HandlersOf(selectionCellsHandler.before.handlers) :
             \/ /\ h \in HandlersOf(selectionCellsHandler.handlers)
                /\ DestroyedByRefresh(h) = 0
             \/ /\ h \notin HandlersOf(selectionCellsHandler.handlers)
                /\ DestroyedByRefresh(h) = 1
\* A refresh kept one handler and replaced another whose cell is still selected
\* and has a new view state.
C29_KeptAndReplaced ==
    /\ selectionCellsHandler.refreshed
    /\ \E h, k \in HandlersOf(selectionCellsHandler.before.handlers) :
          /\ h \in HandlersOf(selectionCellsHandler.handlers)
          /\ k \notin HandlersOf(selectionCellsHandler.handlers)
          /\ selectionCellsHandler.created[k].cell \in graph.selectionCells
          /\ graph.states[selectionCellsHandler.created[k].cell] # 0

\* A listener on the graph, its model, its view or its container that runs a
\* function of the constraint handler.
ConstraintListeners ==
    {l \in graph.listeners : l.f \in {"resetHandler", "mouseleaveHandler"}}

\* C30: after destroy() none of the listeners the constraint handler registered
\* is registered any more: not the reset listener on the model, the view and
\* the graph, and not the mouseleave listener update() put on the container.
C30_DestroyRemovesListeners ==
    constraintHandler.destroyed => ConstraintListeners = {}
\* The handler was destroyed after update() had installed the mouseleave
\* listener, and the container still calls resetHandler on mouseleave.
C30_MouseleaveStillRegistered ==
    /\ constraintHandler.destroyed
    /\ Listener("container", "mouseleave", "resetHandler") \in graph.listeners

\* A terminal of the last call has no width or no height.
IsFlat(terminal) == ~terminal.nil /\ (terminal.width = 0 \/ terminal.height = 0)
FlatCall ==
    /\ OrthConnectorReturned /\ call.trace.path = "pattern"
    /\ (IsFlat(call.input.source) \/ IsFlat(call.input.target))

\* C21: with a source or target shape of zero width or zero height the routing
\* divides by no zero: the products of the connection constraints with the
\* shape's size are numbers, and so is every coordinate in result, also with a
\* fixed connection point on the flat shape.
C21_FlatShapeGivesNumbers ==
    FlatCall
    => /\ \A i \in 1 .. 2 : \A k \in 1 .. 2 : call.trace.offset[i][k] # NaN
       /\ \A i \in 1 .. Len(call.result) :
             call.result[i].nil \/ (call.result[i].x # NaN /\ call.result[i].y # NaN)
\* A flat source with a fixed connection point was routed.
C21_FlatFixedRouted ==
    FlatCall /\ IsFlat(call.input.source) /\ ~call.input.state.absolutePoints[1].nil
\* A coordinate of the emitted route is NaN.
C21_NaNEmitted ==
    FlatCall /\ \E i \in 1 .. Len(call.result) :
                  ~call.result[i].nil /\ (call.result[i].x = NaN \/ call.result[i].y = NaN)

\* The last call's arguments run on scratch arrays no call has touched.
FreshCall ==
    OrthConnector(build, call.input.state, call.input.source, call.input.target,
                  call.input.hints, call.input.result,
                  [wayPoints1 |-> InitialWayPoints1, limits |-> InitialLimits,
                   vertexSeperations |-> InitialVertexSeperations])

\* C11: a call of OrthConnector leaves in result what the same call leaves in
\* it on untouched scratch arrays, whatever earlier calls with other arguments
\* left in wayPoints1, limits and vertexSeperations; so two calls with the same
\* arguments append the same points.
C11_ResultIgnoresScratch ==
    call.op = "OrthConnector"
    => /\ call.result = FreshCall.result
       /\ call.trace.error = FreshCall.trace.error
       /\ call.trace.currentIndex = FreshCall.trace.currentIndex

\* A second call routed by pattern while wayPoints1 still holds, beyond the
\* entries this call wrote, a way-point of an earlier and longer route.
C11_StaleScratch ==
    /\ calls = 2
    /\ call.trace.path = "pattern"
    /\ Len(call.result) > Len(call.input.result)
    /\ \E k \in call.trace.maxIndex + 1 .. 11 : wayPoints1[k] # <<0, 0>>

(***************************************************************************)
(* Specifications                                                          *)
(***************************************************************************)

Init == InitRpc /\ InitRouter /\ InitHandlers

\* The worker promises do not depend on how core.js was bundled.
InitWorker == Init /\ build = "let"

SpecRpc == InitWorker /\ [][NextRpc]_vars

SpecRouter == Init /\ [][NextRouter]_vars
SpecSelection == Init /\ [][NextSelection]_vars
SpecConstraint == Init /\ [][NextConstraint]_vars
SpecPattern == Init /\ [][NextPattern]_vars
SpecFlat == Init /\ [][NextFlat]_vars

SpecScratch == Init /\ [][NextScratch]_vars

SpecScale == Init /\ [][NextScale]_vars

SpecJetty == Init /\ [][NextJetty]_vars

\* A call of a JavaScript function runs to completion: a step of the call under
\* way that can be taken is taken.
SpecLoops == Init /\ [][NextLoops]_vars /\ WF_vars(RunOrthConnector)

====
